---- MODULE Spec2Model ----
(***************************************************************************)
(* Streaming conversation orchestrator of typstai.                         *)
(*                                                                         *)
(* One chat request (POST /api/chat) for one conversation is modelled as   *)
(* the state machine of handleChatStream: its suspend points (the awaits   *)
(* on the model backend and on renderTypst) are the values of pc, the      *)
(* synchronous code between two awaits is one action.  The model backend,  *)
(* the typst compiler and the client holding the response stream are the   *)
(* environment: they choose the stream events, the render outcomes and     *)
(* the moment of an abort.                                                 *)
(***************************************************************************)
EXTENDS Integers, Sequences, FiniteSets, TLC

(***************************************************************************)
(* Bounds of the model.                                                    *)
(***************************************************************************)
\* text deltas the backend emits in one turn (both calls together)
MaxText == 2
\* input_json_delta fragments the backend emits in one turn
MaxFrags == 2
\* tool-use blocks the backend opens in the first stream
MaxToolBlocks == 2
\* rows of a log that loadConversation replays
MaxEntries == 4
\* rows inserted while datetime('now') shows one second
RowsPerSecond == 2
\* calls of logMessage on the two tables, and seconds that pass meanwhile
MaxRows == 3
MaxClock == 2

(***************************************************************************)
(* Values.                                                                 *)
(***************************************************************************)
\* a JavaScript undefined in a string-valued position
Undefined == "<undefined>"
\* optional values of other types
None == <<>>
Some(x) == <<x>>

ConversationId == "c1"
\* text of the n-th text_delta of a turn (the code only appends and forwards
\* it, so the chunks are told apart by their position)
TextOf(n) == IF n = 1 THEN "a" ELSE IF n = 2 THEN "b" ELSE IF n = 3 THEN "c" ELSE "d"
\* content_block.id of the n-th tool_use block (unique, never empty)
ToolIdOf(n) == "toolu_" \o ToString(n)
\* the only tool offered to the model (typstToolDefinition.name)
RenderTool == "render_typst"
\* partial_json fragments: pieces of the JSON text of a tool input
FragA == "{\"code\":\"A\",\"description\":\"d\""
FragB == "{\"code\":\"B\",\"description\":\"d\""
Frags == {FragA, FragB, "}"}
\* error texts of a failed compile (stderr of typst)
RenderErrors == {"unknown variable"}
\* message of a backend exception
BackendError == "Connection error"
\* the messages array of a request: empty, or ending with a user message
RequestBodies == {<<>>, <<[role |-> "user", content |-> "q1"]>>}

(***************************************************************************)
(* JSON.parse of a buffered tool input.  The buffer is the concatenation   *)
(* of the fragments received; it parses only when it is a complete JSON    *)
(* text.  SyntaxError stands for the exception JSON.parse throws.          *)
(***************************************************************************)
NoInput == [code |-> Undefined, description |-> Undefined]
SyntaxError == [code |-> "<SyntaxError>", description |-> "<SyntaxError>"]

JSONparse(text) ==
  IF text = FragA \o "}" THEN [code |-> "A", description |-> "d"]
  ELSE IF text = FragB \o "}" THEN [code |-> "B", description |-> "d"]
  ELSE IF text = "{}" THEN NoInput
  ELSE SyntaxError

\* JSON.stringify of an object of string members: undefined members are dropped
JSONstringify(obj) ==
  [k \in {m \in DOMAIN obj : obj[m] # Undefined} |-> obj[k]]


(***************************************************************************)
(* renderTypst: the outcomes one call can have.  A missing or blank code   *)
(* is refused before the compiler runs; otherwise the compiler (an         *)
(* external process on a temp directory) succeeds or fails.                *)
(***************************************************************************)
NoCodeError == "No Typst code provided"

Blank(code) == code = Undefined \/ code = ""

\* the page files of a compiled document, base64 encoded, in page order
PagesOf(code) == IF code = "A" THEN <<"pA1">> ELSE <<"p" \o code \o "1", "p" \o code \o "2">>

RenderFailure(e) ==
  [success |-> FALSE, pages |-> None, data |-> Undefined, error |-> e]

renderTypst(code, format) ==
  IF Blank(code) THEN {RenderFailure(NoCodeError)}
  ELSE {RenderFailure(e) : e \in RenderErrors} \cup
       {IF format = "pdf"
          THEN [success |-> TRUE, pages |-> None,
                data |-> "pdf:" \o code, error |-> Undefined]
          ELSE [success |-> TRUE, pages |-> Some(PagesOf(code)),
                data |-> Undefined, error |-> Undefined]}

(***************************************************************************)
(* State.                                                                  *)
(***************************************************************************)
VARIABLES
  pc,               \* suspend point of handleChatStream
  reqMessages,      \* body.messages of the request
  conversations,    \* rows of table conversations with id ConversationId
  messages,         \* rows of table messages of the conversation, by id
  frames,           \* frames enqueued on the response stream, in order
  controllerClosed, \* the flag of the same name
  cancelled,        \* the client has cancelled the response stream
  currentText, typstOutput, toolUseId, toolName, toolInput,
  input,            \* the parsed input of the tool block being executed
  block,            \* backend: kind of the content block open in the stream
  toolBlocks,       \* backend: tool-use blocks opened so far
  frags,            \* backend: input fragments sent so far
  calls,            \* calls to the backend, to JSON.parse of a tool input and
                    \* to renderTypst, and the returns of renderTypst, in order
  failure,          \* what the catch clause caught: "none" or the message
  abortAt,          \* where the turn stood when the client cancelled
  turnBase,         \* rows of table messages written before this request
  pc2,              \* where a second request for the conversation stands
  uiMessages,       \* client: the list loadConversation is building
  loadPos,          \* client: rows of data.messages loadConversation has read
  loadData,         \* client: the response body loadConversation is working on
  loadResults,      \* client: what the last two loads handed to setMessages
                    \* and onTypstOutput
  db,               \* the two tables with all their columns, for the claims
                    \* about lib/database alone
  clock,            \* the second datetime('now') shows
  handler,          \* server/index.ts: the calls of the async contentBlockStop
                    \* listener, each with where it stands
  client,           \* ChatSidebar: isLoading, where sendMessage stands and
                    \* the locals of its frame reader
  renderer          \* typst-renderer.ts: the files of the temp directory, and
                    \* where the running call of renderTypst stands

\* what a running turn leaves alone
storeVars == <<db, clock>>
sessionVars == <<turnBase, pc2, uiMessages, loadPos, loadData, loadResults, storeVars,
                 handler, client, renderer>>

vars == <<pc, reqMessages, conversations, messages, frames, controllerClosed,
          cancelled, currentText, typstOutput, toolUseId, toolName, toolInput,
          input, block, toolBlocks, frags, calls, failure, abortAt, sessionVars>>

NoAbort == [pc |-> "none", frames |-> 0, entries |-> 0]

\* an empty temp directory and no call of renderTypst
RendererIdle ==
  [at |-> "idle", calls |-> 0, id |-> 0, code |-> "", format |-> "", files |-> {},
   pages |-> <<>>, data |-> "", result |-> <<>>]

\* a ChatSidebar that has sent nothing: isLoading is false, no request is
\* in flight, the reader has no response
ClientIdle ==
  [pc |-> "idle", isLoading |-> FALSE, inFlight |-> 0, sends |-> 0, text |-> "",
   stream |-> <<>>,
   read |-> 0, buffer |-> <<>>, handled |-> <<>>, caught |-> "none"]

Running == {"create1", "stream1", "render_png", "render_pdf", "create2", "stream2"}
Finished == {"done", "failed"}

\* the rows of one source in a table of messages
RECURSIVE CountSource(_, _)
CountSource(rows, source) ==
  IF rows = <<>> THEN 0
  ELSE (IF rows[Len(rows)].source = source THEN 1 ELSE 0)
       + CountSource(SubSeq(rows, 1, Len(rows) - 1), source)

\* the locals of a handler that has not run yet, and a client that loads nothing
InitTurn ==
  /\ pc = "idle"
  /\ reqMessages = <<>>
  /\ frames = <<>>
  /\ controllerClosed = FALSE
  /\ cancelled = FALSE
  /\ currentText = ""
  /\ typstOutput = None
  /\ toolUseId = ""
  /\ toolName = ""
  /\ toolInput = ""
  /\ input = NoInput
  /\ block = "none"
  /\ toolBlocks = 0
  /\ frags = 0
  /\ calls = <<>>
  /\ failure = "none"
  /\ abortAt = NoAbort
  /\ turnBase = Len(messages)
  /\ pc2 = "idle"
  /\ uiMessages = <<>>
  /\ loadPos = 0
  /\ loadData = None
  /\ loadResults = <<>>
  /\ db = [conversations |-> <<>>, messages |-> <<>>]
  /\ clock = 0
  /\ handler = <<>>
  /\ client = ClientIdle
  /\ renderer = RendererIdle

\* a fresh database
Init ==
  /\ conversations = <<>>
  /\ messages = <<>>
  /\ InitTurn

(***************************************************************************)
(* The store (lib/database).                                               *)
(***************************************************************************)
\* a variant that creates the row anew on every call
EnsureConversation_Replace(rows) ==
  <<[id |-> ConversationId, typst_code |-> Undefined, typst_pages |-> None]>>

\* createConversation, when logMessage finds no row
EnsureConversation(rows) ==
  IF rows = <<>> THEN <<[id |-> ConversationId, typst_code |-> Undefined,
                         typst_pages |-> None]>>
  ELSE rows

\* datetime('now') at the insert of the n-th row: the clock has a resolution
\* of one second and does not go back; RowsPerSecond inserts fall in a second
Now(n) == (n - 1) \div RowsPerSecond

\* a variant that stops writing once the client is gone
logMessage_SkipWhenCancelled(rows, source, content) ==
  IF cancelled THEN rows
  ELSE Append(rows, [id |-> Len(rows) + 1, source |-> source, content |-> content,
                     timestamp |-> Now(Len(rows) + 1)])

\* logMessage: the row appended to table messages; id is AUTOINCREMENT and
\* timestamp is DEFAULT datetime('now')
logMessage(rows, source, content) ==
  Append(rows, [id |-> Len(rows) + 1, source |-> source, content |-> content,
                timestamp |-> Now(Len(rows) + 1)])

\* a variant that returns the newest second first
getMessages_Descending(rows) ==
  LET Before(i, j) == \/ rows[i].timestamp > rows[j].timestamp
                      \/ rows[i].timestamp = rows[j].timestamp /\ i < j
      rank == [i \in 1..Len(rows) |-> Cardinality({j \in 1..Len(rows) : Before(j, i)}) + 1]
  IN  [k \in 1..Len(rows) |-> rows[CHOOSE i \in 1..Len(rows) : rank[i] = k]]

\* getMessages: SELECT ... ORDER BY timestamp ASC; SQLite returns the rows of
\* one timestamp in rowid order, so rows whose timestamps already ascend
\* come back as they are
getMessages(rows) ==
  LET Before(i, j) == \/ rows[i].timestamp < rows[j].timestamp
                      \/ rows[i].timestamp = rows[j].timestamp /\ i < j
      rank == [i \in 1..Len(rows) |-> Cardinality({j \in 1..Len(rows) : Before(j, i)}) + 1]
  IN  IF \A i \in 1..(Len(rows) - 1) : rows[i].timestamp <= rows[i + 1].timestamp
        THEN rows
        ELSE [k \in 1..Len(rows) |-> rows[CHOOSE i \in 1..Len(rows) : rank[i] = k]]

\* getConversation: the row of the conversation, or undefined
getConversation(rows, id) ==
  IF \E i \in 1..Len(rows) : rows[i].id = id
    THEN rows[CHOOSE i \in 1..Len(rows) : rows[i].id = id]
    ELSE Undefined

\* a variant that stores the pages and leaves the code
updateConversationTypst_PagesOnly(rows, code, pages) ==
  [i \in 1..Len(rows) |-> [rows[i] EXCEPT !.typst_pages = Some(pages)]]

\* updateConversationTypst: UPDATE ... WHERE id = ?
updateConversationTypst(rows, code, pages) ==
  [i \in 1..Len(rows) |-> [rows[i] EXCEPT !.typst_code = code,
                                          !.typst_pages = Some(pages)]]

(***************************************************************************)
(* The response stream.                                                    *)
(***************************************************************************)
\* send: nothing after close(); enqueue on a cancelled stream throws and the
\* exception is swallowed
send(fs, event, data) ==
  IF controllerClosed THEN fs
  ELSE IF cancelled THEN fs
  ELSE Append(fs, [event |-> event, data |-> data])

Kinds(fs) == [i \in 1..Len(fs) |-> fs[i].event]


(***************************************************************************)
(* Pieces of handleChatStream.                                             *)
(***************************************************************************)
\* a member that JSON.stringify keeps only when it is defined
Member(k, v) == IF v = Undefined THEN <<>> ELSE [x \in {k} |-> v]

\* a JavaScript string used as a condition
Truthy(str) == str # Undefined /\ str # ""

\* a variant that services every block that stops
ToolReady_Always(name, buffered) == TRUE

\* if (toolName && toolInput)
ToolReady(name, buffered) == Truthy(name) /\ Truthy(buffered)

\* a variant without the catch: the parse error is used as the input
ParseToolInput_NoCatch(buffered) == JSONparse(buffered)

\* try { input = JSON.parse(toolInput) } catch { input = {code: "", description: ""} }
ParseToolInput(buffered) ==
  LET v == JSONparse(buffered)
  IN  IF v = SyntaxError THEN [code |-> "", description |-> ""] ELSE v

\* renderResult.pages.map(p => `data:image/png;base64,${p}`)
DataUrls(pages) == [i \in 1..Len(pages) |-> "data:image/png;base64," \o pages[i]]

\* a variant that records every outcome as a success
ToolResultEntry_AlwaysSuccess(name, r) ==
  [tool |-> name, success |-> TRUE]
    @@ (IF r.pages = None THEN <<>> ELSE [pageCount |-> Len(r.pages[1])])
    @@ Member("error", r.error)

\* the content of the tool_result entry
ToolResultEntry(name, r) ==
  [tool |-> name, success |-> r.success]
    @@ (IF r.pages = None THEN <<>> ELSE [pageCount |-> Len(r.pages[1])])
    @@ Member("error", r.error)

\* a variant that reports the success flag negated
ToolSuccessData_Negated(name, out) ==
  [tool |-> name, success |-> FALSE,
   output |-> [code |-> out.code, pages |-> out.pages[1]] @@ Member("pdfUrl", out.pdfUrl)]

\* the data of the tool_result frame of a successful render
ToolSuccessData(name, out) ==
  [tool |-> name, success |-> TRUE,
   output |-> [code |-> out.code, pages |-> out.pages[1]] @@ Member("pdfUrl", out.pdfUrl)]

\* the data of the tool_result frame of a failed render
ToolFailureData(name, r, code) ==
  [tool |-> name, success |-> FALSE] @@ Member("error", r.error) @@ Member("code", code)

\* a variant that does not look at the outcome of the PDF render
WithPdf_Unchecked(out, r) ==
  [out EXCEPT !.pdfUrl = "data:application/pdf;base64," \o r.data]

\* typstOutput.pdfUrl is set only if (pdfResult.success && pdfResult.data)
WithPdf(out, r) ==
  IF r.success /\ Truthy(r.data)
    THEN [out EXCEPT !.pdfUrl = "data:application/pdf;base64," \o r.data]
    ELSE out

\* a variant that follows up only after a successful render
NeedsFollowUp_OnlyOnSuccess(id, out) ==
  Truthy(id) /\ out # None /\ ~Truthy(out[1].error)

\* if (toolUseId && typstOutput)
NeedsFollowUp(id, out) == Truthy(id) /\ out # None

\* a variant that reports success whatever the outcome
ToolResultText_AlwaysRendered(out) == "Document rendered successfully"

\* the content of the synthetic tool_result block of the follow-up call
ToolResultText(out) ==
  IF Truthy(out.error) THEN "Error: " \o out.error
  ELSE "Document rendered successfully"

\* the messages of the follow-up call
FollowUpMessages(msgs, text, id, buffered, out) ==
  msgs \o
  << [role |-> "assistant",
      content |-> (IF Truthy(text) THEN <<[type |-> "text", text |-> text]>> ELSE <<>>)
                  \o <<[type |-> "tool_use", id |-> id, name |-> RenderTool,
                        input |-> JSONparse(IF Truthy(buffered) THEN buffered ELSE "{}")]>>],
     [role |-> "user",
      content |-> <<[type |-> "tool_result", tool_use_id |-> id,
                     content |-> ToolResultText(out)]>>] >>

\* the content of the final assistant entry
AssistantEntry(text, out) ==
  [message |-> text, hasTypstOutput |-> out # None]
    @@ (IF out = None THEN <<>>
        ELSE Member("typstCode", out[1].code) @@ Member("typstError", out[1].error))

\* a variant that sends the two frames in the other order
AnnounceTool_Swapped(fs, name, inp) ==
  send(send(fs, "tool_executing", [tool |-> name]),
       "tool_input", [tool |-> name, input |-> JSONstringify(inp)])

\* lines 156-157: the two frames sent before the render is called
AnnounceTool(fs, name, inp) ==
  send(send(fs, "tool_input", [tool |-> name, input |-> JSONstringify(inp)]),
       "tool_executing", [tool |-> name])

\* the record kept of the JSON.parse of a buffered tool input (line 145):
\* whether it threw
ParseCall(buffered) ==
  [fn |-> "JSON.parse", format |-> "json", threw |-> JSONparse(buffered) = SyntaxError]

\* the records kept of a call of renderTypst and of its return
RenderCall(code, format) == [fn |-> "renderTypst", code |-> code, format |-> format]
RenderReturn(format, r) == [fn |-> "renderTypst.return", format |-> format, result |-> r]

\* lines 268-277: log the assistant message, send done, close
Finalize(fs) ==
  /\ conversations' = EnsureConversation(conversations)
  /\ messages' = logMessage(messages, "assistant", AssistantEntry(currentText, typstOutput))
  /\ frames' = send(fs, "done", [message |-> currentText])
  /\ controllerClosed' = TRUE
  /\ pc' = "done"
  /\ UNCHANGED failure

\* a variant of the catch clause that closes the stream without a frame
Catch_Silent(fs, msg) ==
  /\ frames' = fs
  /\ controllerClosed' = TRUE
  /\ pc' = "failed"
  /\ failure' = msg

\* lines 278-284: the catch clause
Catch(fs, msg) ==
  /\ frames' = send(fs, "error", [error |-> msg])
  /\ controllerClosed' = TRUE
  /\ pc' = "failed"
  /\ failure' = msg


(***************************************************************************)
(* handleChatStream, one action per stretch of code between two awaits.    *)
(***************************************************************************)
\* lines 62-117: the request arrives; the user message is logged, the stream
\* is created, conversation_id is sent and the first backend call is made
Request(body) ==
  /\ pc = "idle"
  /\ reqMessages' = body
  /\ IF body # <<>>
       THEN /\ conversations' = EnsureConversation(conversations)
            /\ messages' = logMessage(messages, "user", body[Len(body)])
       ELSE UNCHANGED <<conversations, messages>>
  /\ frames' = send(frames, "conversation_id", [conversationId |-> ConversationId])
  /\ calls' = Append(calls, [fn |-> "messages.create", messages |-> body])
  /\ pc' = "create1"
  /\ UNCHANGED <<sessionVars, controllerClosed, cancelled, currentText, typstOutput, toolUseId,
                 toolName, toolInput, input, block, toolBlocks, frags, failure,
                 abortAt>>

\* anthropic.messages.create resolves with a stream (the backend refuses a
\* request without messages)
CreateReturn ==
  /\ pc \in {"create1", "create2"}
  /\ reqMessages # <<>>
  /\ pc' = IF pc = "create1" THEN "stream1" ELSE "stream2"
  /\ UNCHANGED <<sessionVars, reqMessages, conversations, messages, frames, controllerClosed,
                 cancelled, currentText, typstOutput, toolUseId, toolName,
                 toolInput, input, block, toolBlocks, frags, calls, failure,
                 abortAt>>

\* a variant that takes the entries of the turn out of the log
BackendFail_Rollback ==
  /\ pc \in {"create1", "stream1", "create2", "stream2"}
  /\ Catch(frames, BackendError)
  /\ messages' = SubSeq(messages, 1, turnBase)
  /\ UNCHANGED <<sessionVars, reqMessages, conversations, cancelled, currentText,
                 typstOutput, toolUseId, toolName, toolInput, input, block,
                 toolBlocks, frags, calls, abortAt>>

\* the backend call or its stream throws
BackendFail ==
  /\ pc \in {"create1", "stream1", "create2", "stream2"}
  /\ Catch(frames, BackendError)
  /\ UNCHANGED <<sessionVars, reqMessages, conversations, messages, cancelled, currentText,
                 typstOutput, toolUseId, toolName, toolInput, input, block,
                 toolBlocks, frags, calls, abortAt>>

\* content_block_start of a text block
TextBlockStart ==
  /\ pc = "stream1"
  /\ block = "none"
  /\ block' = "text"
  /\ UNCHANGED <<sessionVars, pc, reqMessages, conversations, messages, frames,
                 controllerClosed, cancelled, currentText, typstOutput, toolUseId,
                 toolName, toolInput, input, toolBlocks, frags, calls, failure,
                 abortAt>>

\* content_block_start of a tool_use block (lines 127-132)
ToolBlockStart(id) ==
  /\ pc = "stream1"
  /\ block = "none"
  /\ toolBlocks < MaxToolBlocks
  /\ block' = "tool"
  /\ toolBlocks' = toolBlocks + 1
  /\ toolUseId' = id
  /\ toolName' = RenderTool
  /\ toolInput' = ""
  /\ frames' = send(frames, "tool_start", [tool |-> RenderTool, id |-> id])
  /\ UNCHANGED <<sessionVars, pc, reqMessages, conversations, messages, controllerClosed,
                 cancelled, currentText, typstOutput, input, frags, calls,
                 failure, abortAt>>

\* content_block_delta with a text_delta (lines 134-136)
TextDelta(t) ==
  /\ pc = "stream1"
  /\ block = "text"
  /\ Len(currentText) < MaxText
  /\ currentText' = currentText \o t
  /\ frames' = send(frames, "text", [text |-> t])
  /\ UNCHANGED <<sessionVars, pc, reqMessages, conversations, messages, controllerClosed,
                 cancelled, typstOutput, toolUseId, toolName, toolInput, input,
                 block, toolBlocks, frags, calls, failure, abortAt>>

\* content_block_delta with an input_json_delta (lines 137-139)
InputDelta(f) ==
  /\ pc = "stream1"
  /\ block = "tool"
  /\ frags < MaxFrags
  /\ frags' = frags + 1
  /\ toolInput' = toolInput \o f
  /\ UNCHANGED <<sessionVars, pc, reqMessages, conversations, messages, frames,
                 controllerClosed, cancelled, currentText, typstOutput, toolUseId,
                 toolName, input, block, toolBlocks, calls, failure, abortAt>>

\* content_block_stop (lines 140-163): a buffered tool invocation is parsed,
\* logged, announced and the page render is called
BlockStop ==
  /\ pc = "stream1"
  /\ block # "none"
  /\ block' = "none"
  /\ IF ToolReady(toolName, toolInput)
       THEN LET inp == ParseToolInput(toolInput)
            IN  /\ input' = inp
                /\ conversations' = EnsureConversation(conversations)
                /\ messages' = logMessage(messages, "tool_call",
                                   [tool |-> toolName, input |-> JSONstringify(inp)])
                /\ frames' = AnnounceTool(frames, toolName, inp)
                /\ calls' = calls \o <<ParseCall(toolInput), RenderCall(inp.code, "png")>>
                /\ pc' = "render_png"
       ELSE UNCHANGED <<input, conversations, messages, frames, calls, pc>>
  /\ UNCHANGED <<sessionVars, reqMessages, controllerClosed, cancelled, currentText,
                 typstOutput, toolUseId, toolName, toolInput, toolBlocks, frags,
                 failure, abortAt>>

\* the page render returns (lines 165-186 and 197-210)
RenderPngReturn(r) ==
  /\ pc = "render_png"
  /\ messages' = logMessage(messages, "tool_result", ToolResultEntry(toolName, r))
  /\ IF r.success /\ r.pages # None
       THEN LET pages == DataUrls(r.pages[1])
            IN  /\ typstOutput' = Some([code |-> input.code, pages |-> Some(pages),
                                        pdfUrl |-> Undefined, error |-> Undefined])
                /\ conversations' = updateConversationTypst(
                                       EnsureConversation(conversations), input.code, pages)
                /\ calls' = calls \o <<RenderReturn("png", r),
                                         RenderCall(input.code, "pdf")>>
                /\ pc' = "render_pdf"
                /\ UNCHANGED <<frames, toolName, toolInput>>
       ELSE /\ typstOutput' = Some([code |-> input.code, pages |-> None,
                                    pdfUrl |-> Undefined, error |-> r.error])
            /\ conversations' = EnsureConversation(conversations)
            /\ frames' = send(frames, "tool_result",
                              ToolFailureData(toolName, r, input.code))
            /\ toolName' = ""
            /\ toolInput' = ""
            /\ pc' = "stream1"
            /\ calls' = Append(calls, RenderReturn("png", r))
  /\ UNCHANGED <<sessionVars, reqMessages, controllerClosed, cancelled, currentText, toolUseId,
                 input, block, toolBlocks, frags, failure, abortAt>>

\* the PDF render returns (lines 188-196 and 207-210)
RenderPdfReturn(r) ==
  /\ pc = "render_pdf"
  /\ LET out == WithPdf(typstOutput[1], r)
     IN  /\ typstOutput' = Some(out)
         /\ frames' = send(frames, "tool_result", ToolSuccessData(toolName, out))
  /\ toolName' = ""
  /\ toolInput' = ""
  /\ pc' = "stream1"
  /\ calls' = Append(calls, RenderReturn("pdf", r))
  /\ UNCHANGED <<sessionVars, reqMessages, conversations, messages, controllerClosed, cancelled,
                 currentText, toolUseId, input, block, toolBlocks, frags, failure,
                 abortAt>>

\* the first stream ends (lines 216-255, or 268-277 without a follow-up)
StreamEnd ==
  /\ pc = "stream1"
  /\ block = "none"
  /\ IF NeedsFollowUp(toolUseId, typstOutput)
       THEN LET fs == send(frames, "assistant_continue", <<>>)
            IN  IF JSONparse(IF Truthy(toolInput) THEN toolInput ELSE "{}") = SyntaxError
                  THEN /\ Catch(fs, "Unexpected end of JSON input")
                       /\ UNCHANGED <<conversations, messages, calls>>
                  ELSE /\ frames' = fs
                       /\ calls' = Append(calls,
                            [fn |-> "messages.create",
                             messages |-> FollowUpMessages(reqMessages, currentText,
                                            toolUseId, toolInput, typstOutput[1])])
                       /\ pc' = "create2"
                       /\ UNCHANGED <<conversations, messages, controllerClosed,
                                      failure>>
       ELSE /\ Finalize(frames)
            /\ UNCHANGED calls
  /\ UNCHANGED <<sessionVars, reqMessages, cancelled, currentText, typstOutput, toolUseId,
                 toolName, toolInput, input, block, toolBlocks, frags, abortAt>>

\* a variant that starts the continuation text from nothing
FollowUpTextDelta_FromEmpty(t) ==
  /\ pc = "stream2"
  /\ Len(currentText) < MaxText
  /\ currentText' = t
  /\ frames' = send(frames, "text", [text |-> t])
  /\ UNCHANGED <<sessionVars, pc, reqMessages, conversations, messages, controllerClosed,
                 cancelled, typstOutput, toolUseId, toolName, toolInput, input,
                 block, toolBlocks, frags, calls, failure, abortAt>>

\* a text_delta of the follow-up stream (lines 257-265)
FollowUpTextDelta(t) ==
  /\ pc = "stream2"
  /\ Len(currentText) < MaxText
  /\ currentText' = currentText \o t
  /\ frames' = send(frames, "text", [text |-> t])
  /\ UNCHANGED <<sessionVars, pc, reqMessages, conversations, messages, controllerClosed,
                 cancelled, typstOutput, toolUseId, toolName, toolInput, input,
                 block, toolBlocks, frags, calls, failure, abortAt>>

\* the follow-up stream ends (lines 268-277)
FollowUpEnd ==
  /\ pc = "stream2"
  /\ Finalize(frames)
  /\ UNCHANGED <<sessionVars, reqMessages, cancelled, currentText, typstOutput, toolUseId,
                 toolName, toolInput, input, block, toolBlocks, frags, calls,
                 abortAt>>

\* the client cancels the response stream while the turn runs
Abort ==
  /\ pc \in Running
  /\ ~cancelled
  /\ cancelled' = TRUE
  /\ abortAt' = [pc |-> pc, frames |-> Len(frames), entries |-> Len(messages)]
  /\ UNCHANGED <<sessionVars, pc, reqMessages, conversations, messages, frames,
                 controllerClosed, currentText, typstOutput, toolUseId, toolName,
                 toolInput, input, block, toolBlocks, frags, calls, failure>>

Next ==
  \/ \E body \in RequestBodies : Request(body)
  \/ CreateReturn
  \/ BackendFail
  \/ TextBlockStart
  \/ ToolBlockStart(ToolIdOf(toolBlocks + 1))
  \/ TextDelta(TextOf(Len(currentText) + 1))
  \/ \E f \in Frags : InputDelta(f)
  \/ BlockStop
  \/ \E r \in renderTypst(input.code, "png") : RenderPngReturn(r)
  \/ \E r \in renderTypst(input.code, "pdf") : RenderPdfReturn(r)
  \/ StreamEnd
  \/ FollowUpTextDelta(TextOf(Len(currentText) + 1))
  \/ FollowUpEnd
  \/ Abort

Spec == Init /\ [][Next]_vars

(***************************************************************************)
(* The same turn over a store whose INSERT into table messages can throw   *)
(* (database locked, disk full): logMessage has created the conversation   *)
(* when its stmt.get throws, and the handler does what it does with an     *)
(* exception at that line.                                                 *)
(***************************************************************************)
StoreError == "database is locked"

\* logMessage of the user entry throws (line 70): the call is made before the
\* stream exists and outside the try, so handleChatStream rejects and no
\* event stream is returned
RequestStoreFail(body) ==
  /\ pc = "idle"
  /\ body # <<>>
  /\ reqMessages' = body
  /\ conversations' = EnsureConversation(conversations)
  /\ failure' = StoreError
  /\ pc' = "rejected"
  /\ UNCHANGED <<sessionVars, messages, frames, controllerClosed, cancelled, currentText,
                 typstOutput, toolUseId, toolName, toolInput, input, block,
                 toolBlocks, frags, calls, abortAt>>

\* logMessage of the tool_call entry throws (line 151), after the parse
BlockStopStoreFail ==
  /\ pc = "stream1"
  /\ block # "none"
  /\ ToolReady(toolName, toolInput)
  /\ block' = "none"
  /\ input' = ParseToolInput(toolInput)
  /\ conversations' = EnsureConversation(conversations)
  /\ calls' = Append(calls, ParseCall(toolInput))
  /\ Catch(frames, StoreError)
  /\ UNCHANGED <<sessionVars, reqMessages, messages, cancelled, currentText, typstOutput,
                 toolUseId, toolName, toolInput, toolBlocks, frags, abortAt>>

\* logMessage of the tool_result entry throws (line 166)
RenderPngReturnStoreFail(r) ==
  /\ pc = "render_png"
  /\ calls' = Append(calls, RenderReturn("png", r))
  /\ Catch(frames, StoreError)
  /\ UNCHANGED <<sessionVars, reqMessages, conversations, messages, cancelled, currentText,
                 typstOutput, toolUseId, toolName, toolInput, input, block,
                 toolBlocks, frags, abortAt>>

\* logMessage of the assistant entry throws (line 269)
FinalizeStoreFail ==
  /\ \/ pc = "stream1" /\ block = "none" /\ ~NeedsFollowUp(toolUseId, typstOutput)
     \/ pc = "stream2"
  /\ conversations' = EnsureConversation(conversations)
  /\ Catch(frames, StoreError)
  /\ UNCHANGED <<sessionVars, reqMessages, messages, cancelled, currentText, typstOutput,
                 toolUseId, toolName, toolInput, input, block, toolBlocks, frags,
                 calls, abortAt>>

StoreFail ==
  \/ \E body \in RequestBodies : RequestStoreFail(body)
  \/ BlockStopStoreFail
  \/ \E r \in renderTypst(input.code, "png") : RenderPngReturnStoreFail(r)
  \/ FinalizeStoreFail

NextStoreFaults == Next \/ StoreFail

SpecStoreFaults == Init /\ [][NextStoreFaults]_vars

(***************************************************************************)
(* A second POST /api/chat for the same conversation id.  fetch hands      *)
(* every request to handleChatStream at once; the second invocation has    *)
(* locals, a stream and frames of its own and shares the database.  Its    *)
(* turn is one without a tool and is seen through the rows it writes.      *)
(***************************************************************************)
SecondBody == <<[role |-> "user", content |-> "q2"]>>

\* lines 349-353 and 62-117: the second request arrives while the first turn
\* is in flight and runs to its first await
ConcurrentRequest ==
  /\ pc \in Running
  /\ pc2 = "idle"
  /\ conversations' = EnsureConversation(conversations)
  /\ messages' = logMessage(messages, "user", SecondBody[Len(SecondBody)])
  /\ pc2' = "stream1"
  /\ UNCHANGED <<storeVars, handler, client, renderer, pc, reqMessages, frames, controllerClosed, cancelled, currentText,
                 typstOutput, toolUseId, toolName, toolInput, input, block,
                 toolBlocks, frags, calls, failure, abortAt, turnBase, uiMessages,
                 loadPos, loadData, loadResults>>

\* lines 268-277 of the second invocation: its stream has ended
ConcurrentEnd ==
  /\ pc2 = "stream1"
  /\ conversations' = EnsureConversation(conversations)
  /\ messages' = logMessage(messages, "assistant", AssistantEntry("", None))
  /\ pc2' = "done"
  /\ UNCHANGED <<storeVars, handler, client, renderer, pc, reqMessages, frames, controllerClosed, cancelled, currentText,
                 typstOutput, toolUseId, toolName, toolInput, input, block,
                 toolBlocks, frags, calls, failure, abortAt, turnBase, uiMessages,
                 loadPos, loadData, loadResults>>

NextConcurrent == Next \/ ConcurrentRequest \/ ConcurrentEnd

SpecConcurrent == Init /\ [][NextConcurrent]_vars

(***************************************************************************)
(* A turn of a conversation that has had a turn before.  The database is   *)
(* as a completed turn left it: one without a tool, or one whose render    *)
(* of the code "A" succeeded.                                              *)
(***************************************************************************)
SuccessOf(code, format) == CHOOSE r \in renderTypst(code, format) : r.success

\* typstOutput at the end of a turn that rendered code (lines 174-190)
OutputOf(code) ==
  WithPdf([code |-> code, pages |-> Some(DataUrls(PagesOf(code))),
           pdfUrl |-> Undefined, error |-> Undefined],
          SuccessOf(code, "pdf"))

PlainTurn ==
  [conversations |-> EnsureConversation(<<>>),
   messages |-> logMessage(logMessage(<<>>, "user", [role |-> "user", content |-> "q1"]),
                           "assistant", AssistantEntry(TextOf(1), None))]

ToolTurn ==
  LET inp == JSONparse(FragA \o "}")
      m1 == logMessage(<<>>, "user", [role |-> "user", content |-> "q1"])
      m2 == logMessage(m1, "tool_call", [tool |-> RenderTool, input |-> JSONstringify(inp)])
      m3 == logMessage(m2, "tool_result",
                       ToolResultEntry(RenderTool, SuccessOf(inp.code, "png")))
  IN  [conversations |-> updateConversationTypst(EnsureConversation(<<>>), inp.code,
                                                 DataUrls(PagesOf(inp.code))),
       messages |-> logMessage(m3, "assistant",
                               AssistantEntry("", Some(OutputOf(inp.code))))]

PriorTurns == {PlainTurn, ToolTurn}

InitTurns ==
  /\ cancelled = FALSE
  /\ \E p \in PriorTurns : conversations = p.conversations /\ messages = p.messages
  /\ InitTurn

SpecTurns == InitTurns /\ [][Next]_vars

\* handleGetConversation (part_004 lines 306-345): the body of the response;
\* typstOutput is built only if (typst_code && typst_pages), and its pdfUrl,
\* regenerated on every call, is left out
handleGetConversation(rows, log, id) ==
  IF ~\E i \in 1..Len(rows) : rows[i].id = id
    THEN [status |-> 404, error |-> "Conversation not found"]
    ELSE LET conversation == getConversation(rows, id)
         IN  [status |-> 200, messages |-> getMessages(log),
              typstOutput |->
                IF Truthy(conversation.typst_code) /\ conversation.typst_pages # None
                  THEN Some([code |-> conversation.typst_code,
                             pages |-> conversation.typst_pages[1]])
                  ELSE None]

\* lines 329-331: typstOutput.pdfUrl is set if (pdfResult.success && pdfResult.data)
RegeneratePdf(out, r) ==
  IF r.success /\ Truthy(r.data)
    THEN out @@ [pdfUrl |-> "data:application/pdf;base64," \o r.data]
    ELSE out

\* the outcomes the PDF render of handleGetConversation can have (lines
\* 323-327); without a stored artifact it is not called
PdfOutcomes(rows, id) ==
  LET got == handleGetConversation(rows, <<>>, id)
  IN  IF got.status = 200 /\ got.typstOutput # None
        THEN renderTypst(got.typstOutput[1].code, "pdf")
        ELSE {RenderFailure("not called")}

\* the body of the response of handleGetConversation when its PDF render
\* returned pdfResult
GetConversationResponse(rows, log, id, pdfResult) ==
  LET got == handleGetConversation(rows, log, id)
  IN  IF got.status = 200 /\ got.typstOutput # None
        THEN [got EXCEPT !.typstOutput = Some(RegeneratePdf(@[1], pdfResult))]
        ELSE got

\* the conversation row of a stored log: the artifact is that of the code
\* "A" when the log has a successful tool_result row
RowFor(rows) ==
  IF \E i \in 1..Len(rows) : rows[i].source = "tool_result" /\ rows[i].content.success
    THEN updateConversationTypst(EnsureConversation(<<>>), "A", DataUrls(PagesOf("A")))
    ELSE EnsureConversation(<<>>)

(***************************************************************************)
(* The client's replay of a stored log (ChatSidebar, loadConversation).    *)
(* The content column holds JSON.stringify of what logMessage was given,   *)
(* which the entries of the model already are: a member that was undefined *)
(* is absent, and reading an absent member gives undefined.                *)
(***************************************************************************)
Field(obj, k) == IF k \in DOMAIN obj THEN obj[k] ELSE Undefined

\* Array.prototype.findLastIndex with the predicate m.role === "tool";
\* 0 stands for -1 (the positions of a sequence start at 1)
findLastIndex(ui) ==
  LET tools == {i \in 1..Len(ui) : ui[i].role = "tool"}
  IN  IF tools = {} THEN 0 ELSE CHOOSE i \in tools : \A j \in tools : j <= i

\* a variant that adds a message for a tool_result entry
ConvertEntry_PushResult(ui, msg) ==
  IF msg.source = "user"
    THEN Append(ui, [id |-> ToString(msg.id), role |-> "user",
                     content |-> Field(msg.content, "content")])
  ELSE IF msg.source = "tool_call"
    THEN Append(ui, [id |-> ToString(msg.id), role |-> "tool", content |-> "",
                     toolCall |-> [name |-> Field(msg.content, "tool"),
                                   status |-> "calling",
                                   input |-> Field(msg.content, "input")]])
  ELSE IF msg.source = "tool_result"
    THEN Append(ui, [id |-> ToString(msg.id), role |-> "tool", content |-> "",
                     toolCall |-> [name |-> Field(msg.content, "tool"),
                                   status |-> IF msg.content.success
                                                THEN "success" ELSE "error",
                                   input |-> Undefined,
                                   error |-> Field(msg.content, "error")]])
  ELSE IF msg.source = "assistant"
    THEN Append(ui, [id |-> ToString(msg.id), role |-> "assistant",
                     content |-> Field(msg.content, "message")])
  ELSE ui

\* the body of the loop over data.messages (lines 51-99); the timestamp of
\* a message is left out
ConvertEntry(ui, msg) ==
  IF msg.source = "user"
    THEN Append(ui, [id |-> ToString(msg.id), role |-> "user",
                     content |-> Field(msg.content, "content")])
  ELSE IF msg.source = "tool_call"
    THEN Append(ui, [id |-> ToString(msg.id), role |-> "tool", content |-> "",
                     toolCall |-> [name |-> Field(msg.content, "tool"),
                                   status |-> "calling",
                                   input |-> Field(msg.content, "input")]])
  ELSE IF msg.source = "tool_result"
    THEN LET lastToolIdx == findLastIndex(ui)
         IN  IF lastToolIdx # 0
               THEN [ui EXCEPT ![lastToolIdx].toolCall =
                       [name |-> @.name, input |-> @.input,
                        status |-> IF msg.content.success THEN "success" ELSE "error",
                        error |-> Field(msg.content, "error")]]
               ELSE ui
  ELSE IF msg.source = "assistant"
    THEN Append(ui, [id |-> ToString(msg.id), role |-> "assistant",
                     content |-> Field(msg.content, "message")])
  ELSE ui

\* the list loadConversation hands to setMessages for the rows given
RECURSIVE loadConversation(_)
loadConversation(rows) ==
  IF rows = <<>> THEN <<>>
  ELSE ConvertEntry(loadConversation(SubSeq(rows, 1, Len(rows) - 1)), rows[Len(rows)])

\* what an entry of a stored log can be
EntryKinds ==
  {[source |-> "user", content |-> [role |-> "user", content |-> "q1"]],
   [source |-> "assistant", content |-> AssistantEntry(TextOf(1), None)],
   [source |-> "tool_call",
    content |-> [tool |-> RenderTool, input |-> [code |-> "A", description |-> "d"]]]}
  \cup {[source |-> "tool_result", content |-> ToolResultEntry(RenderTool, r)] :
          r \in renderTypst("A", "png")}

\* the rows of table messages for a log of the kinds es
RowsOf(es) ==
  [i \in 1..Len(es) |-> [id |-> i, source |-> es[i].source, content |-> es[i].content,
                         timestamp |-> Now(i)]]

\* loadConversation starts on some stored log
ReplayInit ==
  /\ \E n \in 0..MaxEntries : \E es \in [1..n -> EntryKinds] :
       /\ messages = RowsOf(es)
       /\ conversations = RowFor(RowsOf(es))
  /\ InitTurn

\* a variant that goes on with the list of the load before
LoadStart_NoReset(pdfResult) ==
  /\ loadData = None
  /\ LET response == GetConversationResponse(conversations, messages, ConversationId,
                                              pdfResult)
     IN  /\ response.status = 200
         /\ loadData' = Some(response)
  /\ loadPos' = 0
  /\ UNCHANGED <<storeVars, handler, client, renderer, pc, reqMessages, conversations, messages, frames, controllerClosed,
                 cancelled, currentText, typstOutput, toolUseId, toolName, toolInput,
                 input, block, toolBlocks, frags, calls, failure, abortAt, turnBase,
                 pc2, loadResults, uiMessages>>

\* lines 46-50: the conversation is fetched; the server answers with
\* handleGetConversation, whose PDF render returns pdfResult
LoadStart(pdfResult) ==
  /\ loadData = None
  /\ LET response == GetConversationResponse(conversations, messages, ConversationId,
                                              pdfResult)
     IN  /\ response.status = 200
         /\ loadData' = Some(response)
  /\ uiMessages' = <<>>
  /\ loadPos' = 0
  /\ UNCHANGED <<storeVars, handler, client, renderer, pc, reqMessages, conversations, messages, frames, controllerClosed,
                 cancelled, currentText, typstOutput, toolUseId, toolName, toolInput,
                 input, block, toolBlocks, frags, calls, failure, abortAt, turnBase,
                 pc2, loadResults>>

\* one pass of the loop: the next row is converted
LoadEntry ==
  /\ loadData # None
  /\ loadPos < Len(loadData[1].messages)
  /\ loadPos' = loadPos + 1
  /\ uiMessages' = ConvertEntry(uiMessages, loadData[1].messages[loadPos + 1])
  /\ UNCHANGED <<storeVars, handler, client, renderer, pc, reqMessages, conversations, messages, frames, controllerClosed,
                 cancelled, currentText, typstOutput, toolUseId, toolName, toolInput,
                 input, block, toolBlocks, frags, calls, failure, abortAt, turnBase,
                 pc2, loadData, loadResults>>

\* the artifact the page shows: onTypstOutput is called only with an artifact
ShownArtifact(results) ==
  IF results = <<>> THEN None ELSE results[Len(results)].typstOutput

\* lines 100-105: setMessages(uiMessages), and onTypstOutput(data.typstOutput)
\* if there is one; the results of the last two loads are kept
LoadFinish ==
  /\ loadData # None
  /\ loadPos = Len(loadData[1].messages)
  /\ LET result == [messages |-> uiMessages,
                    typstOutput |-> IF loadData[1].typstOutput # None
                                      THEN loadData[1].typstOutput
                                      ELSE ShownArtifact(loadResults)]
     IN  loadResults' = IF loadResults = <<>> THEN <<result>>
                        ELSE <<loadResults[Len(loadResults)], result>>
  /\ loadData' = None
  /\ UNCHANGED <<storeVars, handler, client, renderer, pc, reqMessages, conversations, messages, frames, controllerClosed,
                 cancelled, currentText, typstOutput, toolUseId, toolName, toolInput,
                 input, block, toolBlocks, frags, calls, failure, abortAt, turnBase,
                 pc2, uiMessages, loadPos>>

ReplayNext ==
  \/ \E r \in PdfOutcomes(conversations, ConversationId) : LoadStart(r)
  \/ LoadEntry
  \/ LoadFinish

ReplaySpec == ReplayInit /\ [][ReplayNext]_vars


(***************************************************************************)
(* lib/database on its own: the tables conversations and messages with     *)
(* all the columns the functions write, for any conversation id, called in *)
(* any order while the clock advances.                                     *)
(***************************************************************************)
ConversationIds == {"c1", "c2"}

\* the positions of the rows of conversation id
RowsWithId(rows, id) == {i \in 1..Len(rows) : rows[i].id = id}

\* createConversation: INSERT INTO conversations (id, title)
createConversation(d, id, now) ==
  [d EXCEPT !.conversations =
     Append(@, [id |-> id, created_at |-> now, updated_at |-> now,
                typst_code |-> Undefined, typst_pages |-> None])]

\* a variant that leaves updated_at alone
StoreLogMessage_NoTouch(d, id, source, content, now) ==
  LET d1 == IF RowsWithId(d.conversations, id) = {} THEN createConversation(d, id, now)
            ELSE d
  IN  [d1 EXCEPT !.messages =
         Append(@, [id |-> Len(@) + 1, conversation_id |-> id, source |-> source,
                    content |-> content, timestamp |-> now])]

\* logMessage on the tables: the row of the conversation is created if it is
\* missing, the message is inserted, updated_at is set
StoreLogMessage(d, id, source, content, now) ==
  LET d1 == IF RowsWithId(d.conversations, id) = {} THEN createConversation(d, id, now)
            ELSE d
      d2 == [d1 EXCEPT !.messages =
               Append(@, [id |-> Len(@) + 1, conversation_id |-> id, source |-> source,
                          content |-> content, timestamp |-> now])]
  IN  [d2 EXCEPT !.conversations =
         [i \in 1..Len(@) |-> IF @[i].id = id THEN [@[i] EXCEPT !.updated_at = now]
                               ELSE @[i]]]

\* updateConversationTypst on the tables: UPDATE ... WHERE id = ?
StoreUpdateTypst(d, id, code, pages, now) ==
  [d EXCEPT !.conversations =
     [i \in 1..Len(@) |->
        IF @[i].id = id
          THEN [@[i] EXCEPT !.typst_code = code, !.typst_pages = Some(pages),
                            !.updated_at = now]
          ELSE @[i]]]

\* a second passes
Tick ==
  /\ clock < MaxClock
  /\ clock' = clock + 1
  /\ UNCHANGED <<pc, reqMessages, conversations, messages, frames, controllerClosed,
                 cancelled, currentText, typstOutput, toolUseId, toolName, toolInput,
                 input, block, toolBlocks, frags, calls, failure, abortAt, turnBase,
                 pc2, uiMessages, loadPos, loadData, loadResults, db, handler,
                 client, renderer>>

LogMessageCall(id, source, content) ==
  /\ Len(db.messages) < MaxRows
  /\ db' = StoreLogMessage(db, id, source, content, clock)
  /\ UNCHANGED <<pc, reqMessages, conversations, messages, frames, controllerClosed,
                 cancelled, currentText, typstOutput, toolUseId, toolName, toolInput,
                 input, block, toolBlocks, frags, calls, failure, abortAt, turnBase,
                 pc2, uiMessages, loadPos, loadData, loadResults, clock,
                 handler, client, renderer>>

UpdateTypstCall(id, code) ==
  /\ db' = StoreUpdateTypst(db, id, code, DataUrls(PagesOf(code)), clock)
  /\ UNCHANGED <<pc, reqMessages, conversations, messages, frames, controllerClosed,
                 cancelled, currentText, typstOutput, toolUseId, toolName, toolInput,
                 input, block, toolBlocks, frags, calls, failure, abortAt, turnBase,
                 pc2, uiMessages, loadPos, loadData, loadResults, clock,
                 handler, client, renderer>>

StoreNext ==
  \/ Tick
  \/ \E id \in ConversationIds, source \in {"user", "assistant"} :
       LogMessageCall(id, source, [message |-> "m"])
  \/ \E id \in ConversationIds : UpdateTypstCall(id, "A")

StoreSpec == Init /\ [][StoreNext]_vars

(***************************************************************************)
(* The client's live list (ChatSidebar, sendMessage).  The state of the    *)
(* handler is the list given to setMessages and currentToolId; the ids     *)
(* crypto.randomUUID() returns are "user", "assistant" and "tool_n".  Each *)
(* frame is taken to arrive in a read of its own.                          *)
(***************************************************************************)
NoToolId == "<null>"

\* lines 113-135: the user message and the streaming assistant message
SendStart(prev, text) ==
  [list |-> prev \o <<[id |-> "user", role |-> "user", content |-> text],
                       [id |-> "assistant", role |-> "assistant", content |-> "",
                        isStreaming |-> TRUE]>>,
   currentToolId |-> NoToolId]

\* prev.map(m => m.id === id ? change(m) : m) with change setting member k of
\* toolCall to v
SetToolCall(list, id, k, v) ==
  [i \in 1..Len(list) |->
     IF list[i].id = id
       THEN [list[i] EXCEPT !.toolCall =
               [x \in (DOMAIN @) \cup {k} |-> IF x = k THEN v ELSE @[x]]]
       ELSE list[i]]

\* a variant that pushes the tool message at the end of the list
ApplyFrame_PushTool(st, f) ==
  LET assistantIdx == CHOOSE i \in 1..Len(st.list) : st.list[i].id = "assistant"
  IN  IF f.event = "text"
        THEN [st EXCEPT !.list[assistantIdx].content = @ \o f.data.text]
      ELSE IF f.event = "tool_start"
        THEN [list |-> Append(st.list, [id |-> "tool", role |-> "tool", content |-> "",
                                        toolCall |-> [name |-> f.data.tool,
                                                      status |-> "calling"]]),
              currentToolId |-> "tool"]
      ELSE IF f.event = "done"
        THEN [st EXCEPT !.list[assistantIdx].isStreaming = FALSE]
      ELSE st

\* the switch on the event of a frame (lines 179-294)
ApplyFrame(st, f) ==
  LET assistantIdx == CHOOSE i \in 1..Len(st.list) : st.list[i].id = "assistant"
      tools == {i \in 1..Len(st.list) : st.list[i].role = "tool"}
  IN  IF f.event = "text"
        THEN [st EXCEPT !.list[assistantIdx].content = @ \o f.data.text]
      ELSE IF f.event = "tool_start"
        THEN LET id == "tool_" \o ToString(Cardinality(tools) + 1)
                 m == [id |-> id, role |-> "tool", content |-> "",
                       toolCall |-> [name |-> f.data.tool, status |-> "calling"]]
             IN  [list |-> SubSeq(st.list, 1, assistantIdx - 1) \o <<m>>
                             \o SubSeq(st.list, assistantIdx, Len(st.list)),
                  currentToolId |-> id]
      ELSE IF f.event = "tool_input"
        THEN IF st.currentToolId # NoToolId
               THEN [st EXCEPT !.list = SetToolCall(@, st.currentToolId, "input",
                                                    f.data.input)]
               ELSE st
      ELSE IF f.event = "tool_executing"
        THEN IF st.currentToolId # NoToolId
               THEN [st EXCEPT !.list = SetToolCall(@, st.currentToolId, "status",
                                                    "executing")]
               ELSE st
      ELSE IF f.event = "tool_result"
        THEN [list |-> IF st.currentToolId # NoToolId
                         THEN SetToolCall(
                                SetToolCall(st.list, st.currentToolId, "status",
                                            IF f.data.success THEN "success" ELSE "error"),
                                st.currentToolId, "error", Field(f.data, "error"))
                         ELSE st.list,
              currentToolId |-> NoToolId]
      ELSE IF f.event = "done"
        THEN [st EXCEPT !.list[assistantIdx].isStreaming = FALSE]
      ELSE IF f.event = "error"
        THEN [st EXCEPT !.list[assistantIdx].content = "Error: " \o f.data.error,
                        !.list[assistantIdx].isStreaming = FALSE]
      ELSE st

\* the state of sendMessage after the frames fs
RECURSIVE sendMessage(_, _, _)
sendMessage(prev, text, fs) ==
  IF fs = <<>> THEN SendStart(prev, text)
  ELSE ApplyFrame(sendMessage(prev, text, SubSeq(fs, 1, Len(fs) - 1)), fs[Len(fs)])

(***************************************************************************)
(* The handleChatStream of src/server/index.ts, which registers listeners  *)
(* on the stream of the backend.  A listener is called by the emitter and  *)
(* what it returns is dropped, so the async contentBlockStop listener runs *)
(* up to its first await inside the emit and the rest of it runs whenever  *)
(* the render it waits for returns; finalMessage() waits for the stream,   *)
(* not for the listeners.  handler holds one record per call of that       *)
(* listener: where it stands and its local input.  toolUseBlock is         *)
(* toolUseId, toolName and toolInput, and null is an empty toolName.       *)
(***************************************************************************)
\* what index.ts never touches
cbUntouched == <<cancelled, abortAt, turnBase, pc2, uiMessages, loadPos, loadData,
                 loadResults, storeVars, input, client, renderer>>

\* controller.enqueue of lines 77-81, on an open stream
enqueue(fs, event, data) == Append(fs, [event |-> event, data |-> data])

\* handler with the i-th call of the listener moved to position at
HandlerAt(i, at) == [handler EXCEPT ![i].at = at]

\* lines 62-94: the user message is logged, conversation_id is sent and the
\* stream of the backend is opened (messages.stream returns at once)
CbRequest(body) ==
  /\ pc = "idle"
  /\ reqMessages' = body
  /\ IF body # <<>>
       THEN /\ conversations' = EnsureConversation(conversations)
            /\ messages' = logMessage(messages, "user", body[Len(body)])
       ELSE UNCHANGED <<conversations, messages>>
  /\ frames' = enqueue(frames, "conversation_id", [conversationId |-> ConversationId])
  /\ calls' = Append(calls, [fn |-> "messages.stream", messages |-> body])
  /\ pc' = "stream1"
  /\ UNCHANGED <<cbUntouched, controllerClosed, currentText, typstOutput, toolUseId,
                 toolName, toolInput, block, toolBlocks, frags, failure, handler>>

\* lines 106-118: the contentBlockStart listener
CbContentBlockStart(type, id) ==
  /\ pc = "stream1"
  /\ reqMessages # <<>>
  /\ block = "none"
  /\ IF type = "tool_use"
       THEN /\ toolBlocks < MaxToolBlocks
            /\ block' = "tool"
            /\ toolBlocks' = toolBlocks + 1
            /\ toolUseId' = id
            /\ toolName' = RenderTool
            /\ toolInput' = ""
            /\ frames' = enqueue(frames, "tool_start", [tool |-> RenderTool, id |-> id])
       ELSE /\ block' = "text"
            /\ UNCHANGED <<toolBlocks, toolUseId, toolName, toolInput, frames>>
  /\ UNCHANGED <<cbUntouched, pc, reqMessages, conversations, messages, controllerClosed,
                 currentText, typstOutput, frags, calls, failure, handler>>

\* lines 101-104: the text listener
CbText(t) ==
  /\ pc = "stream1"
  /\ block = "text"
  /\ Len(currentText) < MaxText
  /\ currentText' = currentText \o t
  /\ frames' = enqueue(frames, "text", [text |-> t])
  /\ UNCHANGED <<cbUntouched, pc, reqMessages, conversations, messages, controllerClosed,
                 typstOutput, toolUseId, toolName, toolInput, block, toolBlocks, frags,
                 calls, failure, handler>>

\* lines 120-124: the inputJson listener
CbInputJson(f) ==
  /\ pc = "stream1"
  /\ block = "tool"
  /\ frags < MaxFrags
  /\ frags' = frags + 1
  /\ toolInput' = IF Truthy(toolName) THEN toolInput \o f ELSE toolInput
  /\ UNCHANGED <<cbUntouched, pc, reqMessages, conversations, messages, frames,
                 controllerClosed, currentText, typstOutput, toolUseId, toolName, block,
                 toolBlocks, calls, failure, handler>>

\* lines 126-147: the contentBlockStop listener up to its first await.  A
\* JSON.parse that throws rejects the promise of the listener, which nobody
\* holds
CbContentBlockStop ==
  /\ pc = "stream1"
  /\ block # "none"
  /\ block' = "none"
  /\ IF block = "tool" /\ Truthy(toolName)
       THEN LET inp == JSONparse(toolInput)
            IN  IF inp = SyntaxError
                  THEN /\ handler' = Append(handler, [at |-> "threw", input |-> NoInput])
                       /\ calls' = Append(calls, ParseCall(toolInput))
                       /\ UNCHANGED <<conversations, messages, frames>>
                  ELSE /\ conversations' = EnsureConversation(conversations)
                       /\ messages' = logMessage(messages, "tool_call",
                                          [tool |-> toolName, input |-> JSONstringify(inp)])
                       /\ frames' = enqueue(enqueue(frames, "tool_input",
                                              [tool |-> toolName, input |-> JSONstringify(inp)]),
                                            "tool_executing", [tool |-> toolName])
                       /\ calls' = calls \o <<ParseCall(toolInput), RenderCall(inp.code, "png")>>
                       /\ handler' = Append(handler, [at |-> "render_png", input |-> inp])
       ELSE UNCHANGED <<conversations, messages, frames, calls, handler>>
  /\ UNCHANGED <<cbUntouched, pc, reqMessages, controllerClosed, currentText, typstOutput,
                 toolUseId, toolName, toolInput, toolBlocks, frags, failure>>

\* lines 147-171 and 187-200: the page render of the i-th call of the
\* listener returns.  Reading toolUseBlock.name of null throws, and so does
\* enqueue on a closed stream
CbRenderPngReturn(i, r) ==
  /\ handler[i].at = "render_png"
  /\ LET inp == handler[i].input
     IN  IF ~Truthy(toolName)
           THEN /\ handler' = HandlerAt(i, "threw")
                /\ calls' = Append(calls, RenderReturn("png", r))
                /\ UNCHANGED <<conversations, messages, frames, typstOutput, toolUseId,
                               toolName, toolInput>>
           ELSE /\ messages' = logMessage(messages, "tool_result", ToolResultEntry(toolName, r))
                /\ IF r.success /\ r.pages # None
                     THEN LET pages == DataUrls(r.pages[1])
                          IN  /\ typstOutput' = Some([code |-> inp.code, pages |-> Some(pages),
                                                      pdfUrl |-> Undefined, error |-> Undefined])
                              /\ conversations' = updateConversationTypst(
                                                     EnsureConversation(conversations),
                                                     inp.code, pages)
                              /\ calls' = calls \o <<RenderReturn("png", r),
                                                       RenderCall(inp.code, "pdf")>>
                              /\ handler' = HandlerAt(i, "render_pdf")
                              /\ UNCHANGED <<frames, toolUseId, toolName, toolInput>>
                     ELSE /\ typstOutput' = Some([code |-> inp.code, pages |-> None,
                                                  pdfUrl |-> Undefined, error |-> r.error])
                          /\ conversations' = EnsureConversation(conversations)
                          /\ calls' = Append(calls, RenderReturn("png", r))
                          /\ IF controllerClosed
                               THEN /\ handler' = HandlerAt(i, "threw")
                                    /\ UNCHANGED <<frames, toolUseId, toolName, toolInput>>
                               ELSE /\ frames' = enqueue(frames, "tool_result",
                                                   ToolFailureData(toolName, r, inp.code))
                                    /\ toolUseId' = ""
                                    /\ toolName' = ""
                                    /\ toolInput' = ""
                                    /\ handler' = HandlerAt(i, "finished")
  /\ UNCHANGED <<cbUntouched, pc, reqMessages, controllerClosed, currentText, block,
                 toolBlocks, frags, failure>>

\* lines 173-186 and 200: the PDF render of the i-th call of the listener
\* returns
CbRenderPdfReturn(i, r) ==
  /\ handler[i].at = "render_pdf"
  /\ calls' = Append(calls, RenderReturn("pdf", r))
  /\ LET out == WithPdf(typstOutput[1], r)
     IN  /\ typstOutput' = Some(out)
         /\ IF ~Truthy(toolName) \/ controllerClosed
              THEN /\ handler' = HandlerAt(i, "threw")
                   /\ UNCHANGED <<frames, toolUseId, toolName, toolInput>>
              ELSE /\ frames' = enqueue(frames, "tool_result", ToolSuccessData(toolName, out))
                   /\ toolUseId' = ""
                   /\ toolName' = ""
                   /\ toolInput' = ""
                   /\ handler' = HandlerAt(i, "finished")
  /\ UNCHANGED <<cbUntouched, pc, reqMessages, conversations, messages, controllerClosed,
                 currentText, block, toolBlocks, frags, failure>>

\* typstOutput?.error ? `Error: ${typstOutput.error}` : "Document rendered successfully"
CbToolResultText(out) ==
  IF out # None /\ Truthy(out[1].error) THEN "Error: " \o out[1].error
  ELSE "Document rendered successfully"

\* lines 204-233, or 244-253 without a follow-up: finalMessage() resolves.
\* A message with a tool_use block stops with stop_reason tool_use, and
\* toolBlock is the first tool_use block of its content
CbFinalMessage ==
  /\ pc = "stream1"
  /\ reqMessages # <<>>
  /\ block = "none"
  /\ IF toolBlocks > 0
       THEN /\ frames' = enqueue(frames, "assistant_continue", <<>>)
            /\ calls' = Append(calls,
                 [fn |-> "messages.stream",
                  messages |-> reqMessages \o
                    << [role |-> "assistant", content |-> "response.content"],
                       [role |-> "user",
                        content |-> <<[type |-> "tool_result", tool_use_id |-> ToolIdOf(1),
                                       content |-> CbToolResultText(typstOutput)]>>] >>])
            /\ pc' = "stream2"
            /\ UNCHANGED <<conversations, messages, controllerClosed, failure>>
       ELSE /\ Finalize(frames)
            /\ UNCHANGED calls
  /\ UNCHANGED <<cbUntouched, reqMessages, currentText, typstOutput, toolUseId, toolName,
                 toolInput, block, toolBlocks, frags, handler>>

\* FollowUpTextDelta is the text listener of lines 235-238, FollowUpEnd is
\* lines 240-253 and BackendFail is finalMessage() rejecting (lines 254-260)
CbNext ==
  \/ \E body \in RequestBodies : CbRequest(body)
  \/ \E type \in {"text", "tool_use"} : CbContentBlockStart(type, ToolIdOf(toolBlocks + 1))
  \/ CbText(TextOf(Len(currentText) + 1))
  \/ \E f \in Frags : CbInputJson(f)
  \/ CbContentBlockStop
  \/ \E i \in 1..Len(handler) :
       \E r \in renderTypst(handler[i].input.code, "png") : CbRenderPngReturn(i, r)
  \/ \E i \in 1..Len(handler) :
       \E r \in renderTypst(handler[i].input.code, "pdf") : CbRenderPdfReturn(i, r)
  \/ CbFinalMessage
  \/ FollowUpTextDelta(TextOf(Len(currentText) + 1))
  \/ FollowUpEnd
  \/ BackendFail

SpecCallback == Init /\ [][CbNext]_vars

(***************************************************************************)
(* handleChatStream of part_004 statement by statement, where the order of *)
(* the effects between two awaits matters: the start of the turn (Request) *)
(* and the close of a tool-use block (BlockStop and RenderPngReturn) are   *)
(* taken one effect at a time.  The client can cancel only while the       *)
(* handler waits, so Abort stays at the awaits.                            *)
(***************************************************************************)
\* what a step in the middle of a tool-use block leaves alone
blockVars == <<sessionVars, reqMessages, controllerClosed, cancelled, currentText,
               toolUseId, toolBlocks, frags, failure, abortAt, block>>

\* a variant that does not persist the user message
StepLogUser_Skip(body) ==
  /\ pc = "idle"
  /\ reqMessages' = body
  /\ pc' = "logged_user"
  /\ UNCHANGED <<sessionVars, conversations, messages, frames, calls, controllerClosed,
                 cancelled, currentText, typstOutput, toolUseId, toolName, toolInput,
                 input, block, toolBlocks, frags, failure, abortAt>>

\* lines 62-71: the body is read and its last message is logged
StepLogUser(body) ==
  /\ pc = "idle"
  /\ reqMessages' = body
  /\ IF body # <<>>
       THEN /\ conversations' = EnsureConversation(conversations)
            /\ messages' = logMessage(messages, "user", body[Len(body)])
       ELSE UNCHANGED <<conversations, messages>>
  /\ pc' = "logged_user"
  /\ UNCHANGED <<sessionVars, frames, calls, controllerClosed, cancelled, currentText,
                 typstOutput, toolUseId, toolName, toolInput, input, block, toolBlocks,
                 frags, failure, abortAt>>

\* lines 73-104: the stream is created and start() sends conversation_id
StepSendConversationId ==
  /\ pc = "logged_user"
  /\ frames' = send(frames, "conversation_id", [conversationId |-> ConversationId])
  /\ pc' = "sent_id"
  /\ UNCHANGED <<sessionVars, reqMessages, conversations, messages, calls,
                 controllerClosed, cancelled, currentText, typstOutput, toolUseId,
                 toolName, toolInput, input, block, toolBlocks, frags, failure, abortAt>>

\* lines 106-117: the first backend call is made
StepOpenStream ==
  /\ pc = "sent_id"
  /\ calls' = Append(calls, [fn |-> "messages.create", messages |-> reqMessages])
  /\ pc' = "create1"
  /\ UNCHANGED <<sessionVars, reqMessages, conversations, messages, frames,
                 controllerClosed, cancelled, currentText, typstOutput, toolUseId,
                 toolName, toolInput, input, block, toolBlocks, frags, failure, abortAt>>

\* lines 140-148: content_block_stop; a buffered tool input is parsed
StepParse ==
  /\ pc = "stream1"
  /\ block # "none"
  /\ IF ToolReady(toolName, toolInput)
       THEN /\ input' = ParseToolInput(toolInput)
            /\ calls' = Append(calls, ParseCall(toolInput))
            /\ pc' = "log_tool_call"
       ELSE UNCHANGED <<input, calls, pc>>
  /\ block' = "none"
  /\ UNCHANGED <<sessionVars, reqMessages, controllerClosed, cancelled, currentText,
                 toolUseId, toolBlocks, frags, failure, abortAt, conversations, messages,
                 frames, typstOutput, toolName, toolInput>>

\* lines 150-154
StepLogToolCall ==
  /\ pc = "log_tool_call"
  /\ conversations' = EnsureConversation(conversations)
  /\ messages' = logMessage(messages, "tool_call",
                     [tool |-> toolName, input |-> JSONstringify(input)])
  /\ pc' = "send_tool_input"
  /\ UNCHANGED <<blockVars, frames, calls, input, typstOutput, toolName, toolInput>>

\* line 156
StepSendToolInput ==
  /\ pc = "send_tool_input"
  /\ frames' = send(frames, "tool_input", [tool |-> toolName, input |-> JSONstringify(input)])
  /\ pc' = "send_tool_executing"
  /\ UNCHANGED <<blockVars, conversations, messages, calls, input, typstOutput, toolName,
                 toolInput>>

\* line 157
StepSendToolExecuting ==
  /\ pc = "send_tool_executing"
  /\ frames' = send(frames, "tool_executing", [tool |-> toolName])
  /\ pc' = "call_render"
  /\ UNCHANGED <<blockVars, conversations, messages, calls, input, typstOutput, toolName,
                 toolInput>>

\* lines 159-163: renderTypst is called and the handler waits
StepCallRender ==
  /\ pc = "call_render"
  /\ calls' = Append(calls, RenderCall(input.code, "png"))
  /\ pc' = "render_png"
  /\ UNCHANGED <<blockVars, conversations, messages, frames, input, typstOutput, toolName,
                 toolInput>>

\* line 160: the page render returns
StepRenderReturn(r) ==
  /\ pc = "render_png"
  /\ calls' = Append(calls, RenderReturn("png", r))
  /\ pc' = "log_tool_result"
  /\ UNCHANGED <<blockVars, conversations, messages, frames, input, typstOutput, toolName,
                 toolInput>>

\* lines 165-171
StepLogToolResult ==
  /\ pc = "log_tool_result"
  /\ conversations' = EnsureConversation(conversations)
  /\ messages' = logMessage(messages, "tool_result",
                     ToolResultEntry(toolName, calls[Len(calls)].result))
  /\ pc' = "use_result"
  /\ UNCHANGED <<blockVars, frames, calls, input, typstOutput, toolName, toolInput>>

\* lines 173-186, or 197-210 when the render failed
StepUseResult ==
  /\ pc = "use_result"
  /\ LET r == calls[Len(calls)].result
     IN  IF r.success /\ r.pages # None
           THEN LET pages == DataUrls(r.pages[1])
                IN  /\ typstOutput' = Some([code |-> input.code, pages |-> Some(pages),
                                            pdfUrl |-> Undefined, error |-> Undefined])
                    /\ conversations' = updateConversationTypst(conversations, input.code, pages)
                    /\ calls' = Append(calls, RenderCall(input.code, "pdf"))
                    /\ pc' = "render_pdf"
                    /\ UNCHANGED <<frames, toolName, toolInput>>
           ELSE /\ typstOutput' = Some([code |-> input.code, pages |-> None,
                                        pdfUrl |-> Undefined, error |-> r.error])
                /\ frames' = send(frames, "tool_result",
                                  ToolFailureData(toolName, r, input.code))
                /\ toolName' = ""
                /\ toolInput' = ""
                /\ pc' = "stream1"
                /\ UNCHANGED <<conversations, calls>>
  /\ UNCHANGED <<blockVars, messages, input>>

StepsNext ==
  \/ \E body \in RequestBodies : StepLogUser(body)
  \/ StepSendConversationId
  \/ StepOpenStream
  \/ CreateReturn
  \/ BackendFail
  \/ TextBlockStart
  \/ ToolBlockStart(ToolIdOf(toolBlocks + 1))
  \/ TextDelta(TextOf(Len(currentText) + 1))
  \/ \E f \in Frags : InputDelta(f)
  \/ StepParse
  \/ StepLogToolCall
  \/ StepSendToolInput
  \/ StepSendToolExecuting
  \/ StepCallRender
  \/ \E r \in renderTypst(input.code, "png") : StepRenderReturn(r)
  \/ StepLogToolResult
  \/ StepUseResult
  \/ \E r \in renderTypst(input.code, "pdf") : RenderPdfReturn(r)
  \/ StreamEnd
  \/ FollowUpTextDelta(TextOf(Len(currentText) + 1))
  \/ FollowUpEnd
  \/ Abort

SpecSteps == Init /\ [][StepsNext]_vars

(***************************************************************************)
(* Observations used by the properties.                                    *)
(***************************************************************************)
\* the entries of the turn in the log
TurnEntries == SubSeq(messages, turnBase + 1, Len(messages))
\* the log as the turns before this one left it
PriorEntries == SubSeq(messages, 1, turnBase)

\* positions of the frames of one kind
FramesOf(kind) == {i \in 1..Len(frames) : frames[i].event = kind}

IsTerminal(f) == f.event \in {"done", "error"}
IsToolKind(k) == k \in {"tool_start", "tool_input", "tool_executing", "tool_result"}
IsNotText(k) == k # "text"

\* positions of the records of calls of one function and format
CallsOf(fn, format) ==
  {i \in 1..Len(calls) : calls[i].fn = fn /\ calls[i].format = format}

\* positions of the calls of the backend; the first is the first call of the turn
BackendCalls == {i \in 1..Len(calls) : calls[i].fn = "messages.create"}
FollowUpCalls == Cardinality(BackendCalls) - (IF pc = "idle" THEN 0 ELSE 1)

\* a tool invocation of the turn ran to completion: its page render returned
ToolCompleted == CallsOf("renderTypst.return", "png") # {}

\* C1: in a turn the caller does not abort, the frames end with exactly one
\* terminal frame (done or error) once the turn is over, there is never more
\* than one, and no frame follows it
C1_ExactlyOneTerminalFrame ==
  ~cancelled =>
    /\ Cardinality(FramesOf("done") \cup FramesOf("error")) <= 1
    /\ \A i \in 1..Len(frames) : IsTerminal(frames[i]) => i = Len(frames)
    /\ pc \in Finished <=> (frames # <<>> /\ IsTerminal(frames[Len(frames)]))

C1_Witness ==
  /\ pc = "failed"
  /\ ~cancelled
  /\ FramesOf("tool_result") # {}
  /\ frames[Len(frames)].event = "error"

\* the four frames of one tool block follow each other without a frame between
ToolBlockAt(ks, i) ==
  /\ i + 3 <= Len(ks)
  /\ ks[i] = "tool_start"
  /\ ks[i + 1] = "tool_input"
  /\ ks[i + 2] = "tool_executing"
  /\ ks[i + 3] = "tool_result"

\* the scenario of C2: a finished, unaborted turn with one tool invocation,
\* whose input is valid and whose page render succeeded
OneSuccessfulTool ==
  /\ pc = "done"
  /\ ~cancelled
  /\ toolBlocks = 1
  /\ Cardinality(CallsOf("renderTypst.return", "png")) = 1
  /\ \A i \in CallsOf("renderTypst.return", "png") : calls[i].result.success

\* C2 as stated: conversation_id, text*, tool_start, tool_input,
\* tool_executing, tool_result with success true, text*, done
C2_Original ==
  OneSuccessfulTool =>
    /\ SelectSeq(Kinds(frames), IsNotText)
         = <<"conversation_id", "tool_start", "tool_input", "tool_executing",
             "tool_result", "done">>
    /\ \E i \in 1..Len(frames) : ToolBlockAt(Kinds(frames), i)
    /\ \A i \in FramesOf("tool_result") : frames[i].data.success

\* C2 (amended): in that scenario the frames are, in order, conversation_id,
\* text*, tool_start, tool_input, tool_executing, tool_result with success
\* true, text*, assistant_continue, text*, done
C2_ScenarioFrames ==
  OneSuccessfulTool =>
    /\ SelectSeq(Kinds(frames), IsNotText)
         = <<"conversation_id", "tool_start", "tool_input", "tool_executing",
             "tool_result", "assistant_continue", "done">>
    /\ \E i \in 1..Len(frames) : ToolBlockAt(Kinds(frames), i)
    /\ \A i \in FramesOf("tool_result") : frames[i].data.success

\* text before the tool block, text after the continuation started
C2_Witness ==
  /\ OneSuccessfulTool
  /\ Len(frames) = 9
  /\ frames[2].event = "text"
  /\ frames[8].event = "text"

\* C3: every tool_input, tool_executing and tool_result frame comes after the
\* tool_start frame of its block, and the frames of a block come in the order
\* tool_start, tool_input, tool_executing, tool_result
C3_ToolFrameOrder ==
  LET ks == SelectSeq(Kinds(frames), IsToolKind)
  IN  \A i \in 1..Len(ks) :
        /\ ks[i] = "tool_input" => i > 1 /\ ks[i - 1] = "tool_start"
        /\ ks[i] = "tool_executing" => i > 1 /\ ks[i - 1] = "tool_input"
        /\ ks[i] = "tool_result" => i > 1 /\ ks[i - 1] = "tool_executing"

C3_Witness ==
  Cardinality(FramesOf("tool_result")) = 2

\* C4: the page render is called at most once in a turn, and at most one
\* tool_call entry and one tool_result entry are persisted
C4_AtMostOneToolServiced ==
  /\ Cardinality(CallsOf("renderTypst", "png")) <= 1
  /\ CountSource(TurnEntries, "tool_call") <= 1
  /\ CountSource(TurnEntries, "tool_result") <= 1

\* C5: every tool-use block that was opened and closed has caused exactly one
\* page render, one tool_call entry and one tool_input frame
C5_OncePerInvocation ==
  (pc \in {"stream1", "create2", "stream2", "done"} /\ block # "tool") =>
    /\ Cardinality(CallsOf("renderTypst", "png")) = toolBlocks
    /\ CountSource(TurnEntries, "tool_call") = toolBlocks
    /\ ~cancelled => Cardinality(FramesOf("tool_input")) = toolBlocks


\* C6 as stated: at most one continuation call is made, and a finished turn
\* has made it if and only if a tool invocation ran to completion; without a
\* completed invocation there is no call and no assistant_continue frame
C6_Original ==
  /\ FollowUpCalls <= 1
  /\ ~ToolCompleted => FollowUpCalls = 0 /\ FramesOf("assistant_continue") = {}
  /\ pc \in Finished => (FollowUpCalls = 1 <=> ToolCompleted)

\* C6 (amended): at most one continuation call is made, and only after a tool
\* invocation ran to completion; a turn that ends with done after a completed
\* invocation has made it; without a completed invocation there is no call
\* and no assistant_continue frame
C6_ContinuationOnlyAfterTool ==
  /\ FollowUpCalls <= 1
  /\ ~ToolCompleted => FollowUpCalls = 0 /\ FramesOf("assistant_continue") = {}
  /\ pc = "done" => (FollowUpCalls = 1 <=> ToolCompleted)

C6_Witness ==
  /\ pc = "done"
  /\ FollowUpCalls = 1
  /\ Cardinality(CallsOf("renderTypst.return", "png")) = 2

\* C7: once the caller has aborted the stream no assistant entry is persisted
\* for the turn, and the tool entries persisted before the abort stay
C7_NoAssistantEntryAfterAbort ==
  cancelled =>
    /\ CountSource(TurnEntries, "assistant") = 0
    /\ Len(messages) >= abortAt.entries

\* C8: when the client aborts while the page render runs (after the
\* tool_executing frame) and the render returns, the tool_result entry of
\* that invocation is in the log right after its tool_call entry, and no
\* frame has been added to the stream since the abort
C8_OutcomePersistedAfterAbort ==
  (abortAt.pc = "render_png" /\ pc # "render_png") =>
    /\ messages[abortAt.entries].source = "tool_call"
    /\ Len(messages) > abortAt.entries
    /\ messages[abortAt.entries + 1].source = "tool_result"
    /\ Len(frames) = abortAt.frames
    /\ frames[Len(frames)].event = "tool_executing"

C8_Witness ==
  /\ abortAt.pc = "render_png"
  /\ pc = "done"
  /\ CountSource(messages, "tool_result") = 1

\* the k-th element of a set of positions, in increasing order
Nth(S, k) == CHOOSE i \in S : Cardinality({j \in S : j < i}) = k - 1

\* positions of the entries of one source
EntriesOf(source) == {i \in 1..Len(messages) : messages[i].source = source}

\* C9: a page render that returns success false with error e does not fail the
\* turn: its tool_result entry has success false and error e, so has its
\* tool_result frame, and unless the backend fails the turn ends with done
\* after a continuation call and without an error frame
C9_RenderFailureIsAnOutcome ==
  LET returns == CallsOf("renderTypst.return", "png")
  IN  /\ \A k \in 1..Cardinality(returns) :
           LET r == calls[Nth(returns, k)].result
           IN  ~r.success =>
                 /\ Cardinality(EntriesOf("tool_result")) >= k
                 /\ LET e == messages[Nth(EntriesOf("tool_result"), k)].content
                    IN  ~e.success /\ e.error = r.error
                 /\ ~cancelled =>
                      /\ Cardinality(FramesOf("tool_result")) >= k
                      /\ LET d == frames[Nth(FramesOf("tool_result"), k)].data
                         IN  ~d.success /\ d.error = r.error
      /\ (\E i \in returns : ~calls[i].result.success) =>
           /\ pc \in Finished /\ failure # BackendError =>
                pc = "done" /\ FollowUpCalls = 1 /\ FramesOf("error") = {}
           /\ pc = "failed" => failure = BackendError

C9_Witness ==
  /\ pc = "done"
  /\ ~cancelled
  /\ \E i \in CallsOf("renderTypst.return", "png") :
       calls[i].result.error \in RenderErrors
  /\ frames[Len(frames) - 1].event = "text"

\* C10: when the page render succeeds and the PDF render fails, the tool
\* outcome stays successful: the tool_result entry has success true, the
\* tool_result frame has success true and carries the pages and the markup
\* but no pdfUrl, and the stored latest artifact is that of this render
C10_PdfFailureKeepsSuccess ==
  (calls # <<>> /\ calls[Len(calls)].fn = "renderTypst.return"
     /\ calls[Len(calls)].format = "pdf" /\ ~calls[Len(calls)].result.success) =>
    LET code == calls[Len(calls) - 1].code
        pages == DataUrls(calls[Len(calls) - 2].result.pages[1])
        entry == messages[Len(messages)]
    IN  /\ calls[Len(calls) - 2].result.success
        /\ entry.source = "tool_result"
        /\ entry.content.success
        /\ entry.content.pageCount = Len(pages)
        /\ conversations[1].typst_code = code
        /\ conversations[1].typst_pages = Some(pages)
        /\ ~cancelled =>
             LET i == Nth(FramesOf("tool_result"), Cardinality(FramesOf("tool_result")))
             IN  /\ FramesOf("tool_result") # {}
                 /\ frames[i].data.success
                 /\ frames[i].data.output.code = code
                 /\ frames[i].data.output.pages = pages
                 /\ "pdfUrl" \notin DOMAIN frames[i].data.output

C10_Witness ==
  /\ calls # <<>>
  /\ calls[Len(calls)].fn = "renderTypst.return"
  /\ calls[Len(calls)].format = "pdf"
  /\ ~calls[Len(calls)].result.success
  /\ ~cancelled
  /\ frames[Len(frames)].event = "text"


\* C11: a buffered tool input that is not valid JSON does not fail the turn:
\* {code: "", description: ""} is used instead, the tool_call entry carries it,
\* the render reports failure, the tool_result frame has success false, and
\* the turn goes on to the continuation and ends with done (an error frame
\* comes only from a failure of the backend)
C11_MalformedInputRecovered ==
  LET parses == CallsOf("JSON.parse", "json")
      returns == CallsOf("renderTypst.return", "png")
      bad == {k \in 1..Cardinality(parses) :
                calls[Nth(parses, k)].threw}
  IN  /\ \A k \in bad :
           /\ calls[Nth(parses, k) + 1] = RenderCall("", "png")
           /\ messages[Nth(EntriesOf("tool_call"), k)].content.input
                = [code |-> "", description |-> ""]
           /\ k <= Cardinality(returns) =>
                /\ ~calls[Nth(returns, k)].result.success
                /\ calls[Nth(returns, k)].result.error = NoCodeError
                /\ ~messages[Nth(EntriesOf("tool_result"), k)].content.success
                /\ ~cancelled =>
                     LET d == frames[Nth(FramesOf("tool_result"), k)].data
                     IN  ~d.success /\ d.error = NoCodeError
      /\ bad # {} =>
           /\ failure \in {"none", BackendError}
           /\ failure = "none" => FramesOf("error") = {}
           /\ pc = "done" => FollowUpCalls = 1
           /\ pc \in Finished /\ failure = "none" => pc = "done"

C11_Witness ==
  /\ pc = "done"
  /\ ~cancelled
  /\ toolBlocks = 1
  /\ \E i \in CallsOf("JSON.parse", "json") : calls[i].threw
  /\ FramesOf("assistant_continue") # {}

\* the text of the text frames of fs, concatenated in emission order
RECURSIVE TextSent(_)
TextSent(fs) ==
  IF fs = <<>> THEN ""
  ELSE TextSent(SubSeq(fs, 1, Len(fs) - 1))
         \o (IF fs[Len(fs)].event = "text" THEN fs[Len(fs)].data.text ELSE "")

\* C12: when a turn ends with a done frame, the message of the assistant
\* entry it persisted is the message of the done frame and is the concatenation
\* of the text of all text frames of the turn in the order they were sent,
\* whatever the renders reported
C12_AssistantTextIsAllText ==
  FramesOf("done") # {} =>
    /\ EntriesOf("assistant") = {Len(messages)}
    /\ messages[Len(messages)].content.message = frames[Len(frames)].data.message
    /\ frames[Len(frames)].event = "done"
    /\ frames[Len(frames)].data.message = TextSent(frames)

\* text before a tool block whose render failed, and text in the continuation
C12_Witness ==
  /\ FramesOf("done") # {}
  /\ \E i \in CallsOf("renderTypst.return", "png") : ~calls[i].result.success
  /\ \E i, j \in FramesOf("text"), k \in FramesOf("assistant_continue") : i < k /\ k < j

\* C13: a turn that ends with done, called the page render once and had it
\* succeed: its assistant entry, the last of the log, has hasTypstOutput
\* true, and the row of the conversation holds the code of the tool's input
C13_SuccessfulToolIsRecorded ==
  LET renders == CallsOf("renderTypst", "png")
      returns == CallsOf("renderTypst.return", "png")
  IN  (/\ pc = "done"
       /\ Cardinality(renders) = 1
       /\ \A i \in returns : calls[i].result.success) =>
        /\ messages[Len(messages)].source = "assistant"
        /\ messages[Len(messages)].content.hasTypstOutput
        /\ \A i \in EntriesOf("tool_call") :
             /\ getConversation(conversations, ConversationId).typst_code
                  = messages[i].content.input.code
             /\ messages[i].content.input.code \in {"A", "B"}

C13_Witness ==
  /\ pc = "done"
  /\ Cardinality(CallsOf("renderTypst", "png")) = 1
  /\ \E i \in CallsOf("renderTypst.return", "png") : calls[i].result.success
  /\ getConversation(conversations, ConversationId).typst_code = "B"

\* the messages of role tool in a list of UI messages
ToolMessages(ui) == {ui[i] : i \in {j \in 1..Len(ui) : ui[j].role = "tool"}}
Sources(rows) == [i \in 1..Len(rows) |-> rows[i].source]

\* C14: as long as the first stream of a turn has opened no tool-use block,
\* the turn has persisted no tool_call and no tool_result entry: its entries
\* are its user entry and, once it is done, its assistant entry; and
\* loadConversation finds in the log no tool message that was not in the log
\* before the turn, so only user and assistant messages when the turns
\* before had no tool either
C14_NoToolNoToolEntries ==
  toolBlocks = 0 =>
    /\ Sources(TurnEntries) \in {<<>>, <<"user">>, <<"user", "assistant">>}
    /\ pc = "done" => Sources(TurnEntries) = <<"user", "assistant">>
    /\ ToolMessages(loadConversation(messages))
         = ToolMessages(loadConversation(PriorEntries))
    /\ (\A i \in 1..Len(PriorEntries) : messages[i].source \in {"user", "assistant"}) =>
         /\ Len(loadConversation(messages)) = Len(messages)
         /\ \A i \in 1..Len(messages) :
              loadConversation(messages)[i].role = messages[i].source

\* a second turn without a tool, finished, after a first turn without a tool
C14_Witness ==
  /\ pc = "done" /\ toolBlocks = 0
  /\ Sources(messages) = <<"user", "assistant", "user", "assistant">>
  /\ Len(loadConversation(messages)) = 4

\* C15: once the model backend has failed (a create call or one of the two
\* streams threw), the turn is over, an error frame carrying the message is
\* the last frame (if the client still holds the stream), the log has no
\* assistant entry of the turn, and it has a tool_call entry for every render
\* called and a tool_result entry for every render that returned
C15_BackendFailureEndsTurn ==
  failure = BackendError =>
    /\ pc = "failed"
    /\ ~cancelled =>
         /\ Cardinality(FramesOf("error")) = 1
         /\ frames[Len(frames)].event = "error"
         /\ frames[Len(frames)].data.error = BackendError
    /\ FramesOf("done") = {}
    /\ EntriesOf("assistant") = {}
    /\ Cardinality(EntriesOf("tool_call")) = Cardinality(CallsOf("renderTypst", "png"))
    /\ Cardinality(EntriesOf("tool_result"))
         = Cardinality(CallsOf("renderTypst.return", "png"))

\* the continuation stream fails after a tool was serviced
C15_Witness ==
  /\ failure = BackendError
  /\ ~cancelled
  /\ FollowUpCalls = 1
  /\ EntriesOf("tool_result") # {}

\* C16: when a store append has failed in a turn whose client still holds
\* the stream, the frames of the turn end with an error frame carrying the
\* message, and it is the only error frame
C16_StoreFailureEndsWithErrorFrame ==
  (failure = StoreError /\ ~cancelled) =>
    /\ frames # <<>>
    /\ Cardinality(FramesOf("error")) = 1
    /\ frames[Len(frames)].event = "error"
    /\ frames[Len(frames)].data.error = StoreError

\* C17: an entry of a second request for the conversation is in the log only
\* after the final assistant entry of the turn that was in flight when the
\* request arrived
C17_OneTurnInFlight ==
  \A i \in 1..Len(messages) :
    (messages[i].source = "user" /\ messages[i].content = SecondBody[1]) =>
      \E j \in 1..(i - 1) : messages[j].source = "assistant"

\* the greatest element of a set of positions
Last(S) == CHOOSE i \in S : \A j \in S : j <= i

\* C18: the artifact handleGetConversation returns is that of the most recent
\* page render that succeeded in the conversation, this turn or an earlier
\* one: the code of the tool_call entry of the last tool_result entry with
\* success true, with the pages of that code; renders that failed since and
\* turns without a tool have left it alone; without such an entry there is none
C18_LatestSuccessfulArtifact ==
  \A got \in {handleGetConversation(conversations, messages, ConversationId)} :
    LET ok == {i \in EntriesOf("tool_result") : messages[i].content.success}
    IN  /\ messages # <<>> => got.status = 200
        /\ got.status = 200 =>
             IF ok = {} THEN got.typstOutput = None
             ELSE LET call == Last({j \in EntriesOf("tool_call") : j < Last(ok)})
                      code == messages[call].content.input.code
                  IN  got.typstOutput = Some([code |-> code,
                                              pages |-> DataUrls(PagesOf(code))])

\* after a turn that rendered "A", a turn whose render of "B" failed is done
C18_Witness ==
  /\ pc = "done"
  /\ turnBase = Len(ToolTurn.messages)
  /\ \E i \in CallsOf("renderTypst", "png") :
       /\ calls[i].code = "B"
       /\ ~calls[i + 1].result.success
  /\ handleGetConversation(conversations, messages, ConversationId).typstOutput[1].code
       = "A"

\* the rows loadConversation has converted, and the list as it was when
\* row j was about to be converted
Replayed == SubSeq(messages, 1, loadPos)
ListBefore(j) == loadConversation(SubSeq(messages, 1, j - 1))

\* C19: every tool_result row that loadConversation has converted found, if
\* it found a tool message at all, one that was still unresolved (status
\* calling): no tool message has its status set twice
C19_ResultClosesUnresolved ==
  \A j \in 1..loadPos :
    (messages[j].source = "tool_result" /\ findLastIndex(ListBefore(j)) # 0) =>
      ListBefore(j)[findLastIndex(ListBefore(j))].toolCall.status = "calling"

\* the rows that are not tool_result rows, in order
IsPushed(row) == row.source # "tool_result"
RoleOf(source) == IF source = "tool_call" THEN "tool" ELSE source

\* C20: the replay loop can always convert the next row, whatever the rows
\* are; the list has one message for every converted row that is not a
\* tool_result row, in order, with its id and role; a tool_call row with no
\* tool_result row after it has a message of status calling; a tool_result
\* row with no tool_call row before it left the list as it was
C20_ReplayIsTotal ==
  LET pushed == SelectSeq(Replayed, IsPushed)
  IN  /\ (loadData # None /\ loadPos < Len(messages)) => ENABLED LoadEntry
      /\ uiMessages = loadConversation(Replayed)
      /\ Len(uiMessages) = Len(pushed)
      /\ \A k \in 1..Len(pushed) :
           /\ uiMessages[k].id = ToString(pushed[k].id)
           /\ uiMessages[k].role = RoleOf(pushed[k].source)
           /\ (/\ pushed[k].source = "tool_call"
               /\ \A j \in (pushed[k].id + 1)..loadPos :
                    messages[j].source # "tool_result") =>
                uiMessages[k].toolCall.status = "calling"
      /\ \A j \in 1..loadPos :
           (/\ messages[j].source = "tool_result"
            /\ \A i \in 1..(j - 1) : messages[i].source # "tool_call") =>
             loadConversation(SubSeq(messages, 1, j)) = ListBefore(j)

\* a tool_result row without a tool message before it, then a tool_call row
\* without a tool_result row after it, both converted
C20_Witness ==
  /\ loadPos = Len(messages)
  /\ Sources(messages) = <<"user", "tool_result", "tool_call", "assistant">>
  /\ Len(uiMessages) = 3
  /\ uiMessages[2].toolCall.status = "calling"

\* the code and pages of the artifact of the result of a load
ArtifactOf(result) ==
  IF result.typstOutput = None THEN None
  ELSE Some([code |-> result.typstOutput[1].code, pages |-> result.typstOutput[1].pages])

\* C21 as stated: two loads of a conversation with no append between them
\* give the same messages and the same typstOutput
C21_Original ==
  Len(loadResults) = 2 => loadResults[1] = loadResults[2]

\* C21: two loads of a conversation with no append between them give the
\* same list of messages (ids, roles, contents, tool status, input and
\* error) and an artifact of the same code and pages; the pdfUrl of the
\* artifact comes from a render made at each load
C21_ReplayIsAFunctionOfTheLog ==
  Len(loadResults) = 2 =>
    /\ loadResults[1].messages = loadResults[2].messages
    /\ loadResults[2].messages = loadConversation(getMessages(messages))
    /\ ArtifactOf(loadResults[1]) = ArtifactOf(loadResults[2])
    /\ ArtifactOf(loadResults[2])
         = handleGetConversation(conversations, messages, ConversationId).typstOutput

\* two loads of a log with a resolved tool message and an artifact, the PDF
\* render of only one of them having succeeded
C21_Witness ==
  /\ Len(loadResults) = 2
  /\ ToolMessages(loadResults[2].messages) # {}
  /\ loadResults[1].typstOutput # None
  /\ "pdfUrl" \in DOMAIN loadResults[1].typstOutput[1]
  /\ "pdfUrl" \notin DOMAIN loadResults[2].typstOutput[1]

IsChatMessage(m) == m.role \in {"user", "assistant"}
Roles(ui) == [i \in 1..Len(ui) |-> ui[i].role]

ToolCallView(tc) ==
  [name |-> Field(tc, "name"), status |-> Field(tc, "status"),
   error |-> Field(tc, "error"), hasInput |-> "input" \in DOMAIN tc,
   input |-> IF "input" \in DOMAIN tc THEN tc.input ELSE NoInput]
MessageView(m) ==
  IF m.role = "tool" THEN [role |-> m.role, toolCall |-> ToolCallView(m.toolCall)]
  ELSE [role |-> m.role, content |-> m.content]
ListView(ui) == [i \in 1..Len(ui) |-> MessageView(ui[i])]

\* C23: when a turn whose client kept the stream has ended with done, the
\* list the client built from the frames and the list loadConversation
\* builds from the log have the same messages in the same order: same roles,
\* same contents, and tool messages of the same name, status, input and error
C23_LiveEqualsLoaded ==
  (pc = "done" /\ ~cancelled) =>
    LET live == sendMessage(<<>>, reqMessages[Len(reqMessages)].content, frames).list
        loaded == loadConversation(getMessages(messages))
    IN  /\ Len(live) = Len(loaded)
        /\ ListView(live) = ListView(loaded)

\* C24: in the log of turns run one after another, every tool_result entry
\* comes directly after a tool_call entry, of the same tool, whose input it
\* answers (a blank code is answered by the refusal of the renderer); there
\* are never more tool_result than tool_call entries; and once the turn is
\* done every tool_call entry of the turn is directly followed by its
\* tool_result entry
C24_ResultFollowsItsCall ==
  /\ \A i \in EntriesOf("tool_result") :
       /\ i > 1
       /\ messages[i - 1].source = "tool_call"
       /\ messages[i - 1].content.tool = messages[i].content.tool
       /\ Blank(Field(messages[i - 1].content.input, "code")) =>
            /\ ~messages[i].content.success
            /\ messages[i].content.error = NoCodeError
  /\ Cardinality(EntriesOf("tool_result")) <= Cardinality(EntriesOf("tool_call"))
  /\ Cardinality(EntriesOf("tool_call")) <= Cardinality(EntriesOf("tool_result")) + 1
  /\ pc = "done" =>
       /\ \A i \in EntriesOf("tool_call") :
            i < Len(messages) /\ messages[i + 1].source = "tool_result"
       /\ CountSource(TurnEntries, "tool_call") = CountSource(TurnEntries, "tool_result")

\* a second turn that serviced two tool blocks is done
C24_Witness ==
  /\ pc = "done"
  /\ turnBase = Len(ToolTurn.messages)
  /\ CountSource(TurnEntries, "tool_call") = 2
  /\ CountSource(TurnEntries, "tool_result") = 2

\* the positions of the messages of conversation id in table messages
MessagesOf(id) == {i \in 1..Len(db.messages) : db.messages[i].conversation_id = id}
First(S) == CHOOSE i \in S : \A j \in S : i <= j

\* C25: after any calls of logMessage and updateConversationTypst, the rows of
\* table messages are all the rows ever inserted (ids 1, 2, ... in order),
\* each belongs to exactly one conversation row, a conversation has a row
\* exactly when a message was logged for it, that row was created at the
\* time of its first message and never again, and its updated_at is not
\* older than its last message nor newer than the clock
C25_StoreConsistent ==
  /\ \A i \in 1..Len(db.messages) : db.messages[i].id = i
  /\ \A id \in ConversationIds :
       LET rows == RowsWithId(db.conversations, id)
       IN  IF MessagesOf(id) = {} THEN rows = {}
           ELSE /\ Cardinality(rows) = 1
                /\ \A r \in rows :
                     /\ db.conversations[r].created_at
                          = db.messages[First(MessagesOf(id))].timestamp
                     /\ db.conversations[r].updated_at
                          >= db.messages[Last(MessagesOf(id))].timestamp
                     /\ db.conversations[r].updated_at <= clock
  /\ \A r \in 1..Len(db.conversations) : db.conversations[r].id \in ConversationIds

\* two conversations, one with messages of two different seconds and an
\* artifact
C25_Witness ==
  /\ Len(db.conversations) = 2
  /\ Cardinality(MessagesOf("c1")) = 2
  /\ \E r \in RowsWithId(db.conversations, "c1") :
       /\ db.conversations[r].created_at = 0
       /\ db.conversations[r].updated_at = 2
       /\ db.conversations[r].typst_code = "A"
  /\ db.messages[Last(MessagesOf("c1"))].timestamp = 2

\* C26: the step in which a turn fails, the catch clause sending the error
\* frame, changes neither the log nor the row of the conversation, and
\* handleGetConversation then answers with the conversation, the entries
\* and the artifact it would have answered with before
C26_ErrorLeavesStoreAlone ==
  [][pc' = "failed" =>
       /\ messages' = messages
       /\ conversations' = conversations
       /\ \A after \in {handleGetConversation(conversations', messages', ConversationId)} :
            /\ after.status = 200
            /\ after.messages = messages
            /\ after = handleGetConversation(conversations, messages, ConversationId)]_vars

\* after a turn that rendered "A", a turn has failed with an error frame after
\* a render that failed; the artifact is that of "A"
C26_Witness ==
  /\ pc = "failed"
  /\ ~cancelled
  /\ frames[Len(frames)].event = "error"
  /\ turnBase = Len(ToolTurn.messages)
  /\ CountSource(TurnEntries, "tool_result") = 1
  /\ ~messages[Len(messages)].content.success
  /\ handleGetConversation(conversations, messages, ConversationId).typstOutput
       = Some([code |-> "A", pages |-> DataUrls(PagesOf("A"))])

\* positions of the follow-up calls of index.ts
CbFollowUps ==
  {i \in 1..Len(calls) : calls[i].fn = "messages.stream" /\ Len(calls[i].messages) > 1}

\* the tool-result string that tells the outcome r of a page render
OutcomeText(r) ==
  IF r.success THEN "Document rendered successfully" ELSE "Error: " \o r.error

\* C27: in the handleChatStream of server/index.ts, once the continuation
\* call is opened, the assistant entry persisted or the done frame sent,
\* every tool-use block whose render was called has been processed to its
\* end: its render has returned, its tool_result entry is in the log before
\* the assistant entry and its tool_result frame is in the stream before
\* assistant_continue and done; and the tool-result string handed to the
\* continuation tells the outcome of the last page render.
C27_ToolProcessedBeforeLaterSteps ==
  LET renders == CallsOf("renderTypst", "png")
      returns == CallsOf("renderTypst.return", "png")
  IN  pc \in {"stream2", "done"} =>
        /\ Cardinality(returns) = Cardinality(renders)
        /\ Cardinality(FramesOf("tool_result")) = Cardinality(renders)
        /\ CountSource(TurnEntries, "tool_result") = Cardinality(renders)
        /\ \A i \in FramesOf("tool_result") :
             \A j \in FramesOf("assistant_continue") \cup FramesOf("done") : i < j
        /\ \A c \in CbFollowUps :
             renders # {} =>
               /\ \E k \in returns : k < c
               /\ LET k == CHOOSE k \in returns : \A l \in returns : l <= k
                  IN  calls[c].messages[Len(calls[c].messages)].content[1].content
                        = OutcomeText(calls[k].result)

\* the tool_use block of the assistant message of the backend call at c
ToolUseBlockOf(c) ==
  LET content == calls[c].messages[Len(calls[c].messages) - 1].content
  IN  content[Len(content)]

\* C28: the tool_use block handed to the follow-up call is the invocation
\* that was executed: its input has the code and the description of the
\* input persisted in the last tool_call entry and passed to the render,
\* and its id is the id announced for that block.
C28_ContinuationCarriesExecutedCall ==
  \A c \in BackendCalls :
    Len(calls[c].messages) > Len(reqMessages) =>
      LET tu == ToolUseBlockOf(c)
          entry == messages[Last(EntriesOf("tool_call"))].content.input
          render == calls[Last({i \in CallsOf("renderTypst", "png") : i < c})]
          announced == {i \in FramesOf("tool_start") : i < Last(FramesOf("tool_input"))}
      IN  /\ Field(tu.input, "code") = Field(entry, "code")
          /\ Field(tu.input, "description") = Field(entry, "description")
          /\ Field(tu.input, "code") = render.code
          /\ ~cancelled => tu.id = frames[Last(announced)].data.id

\* C29: on close of a tool-use block the steps run in the order tool_input
\* frame, tool_call entry, tool_executing frame, render call, tool_result
\* entry, tool_result frame, each complete before the next: at every moment
\* of a turn the client has not cancelled, a step has happened at most as
\* many times as the step before it.
C29_ToolBlockStepOrder ==
  ~cancelled =>
    /\ CountSource(TurnEntries, "tool_call") <= Cardinality(FramesOf("tool_input"))
    /\ Cardinality(FramesOf("tool_executing")) <= CountSource(TurnEntries, "tool_call")
    /\ Cardinality(CallsOf("renderTypst", "png")) <= Cardinality(FramesOf("tool_executing"))
    /\ CountSource(TurnEntries, "tool_result")
         <= Cardinality(CallsOf("renderTypst.return", "png"))
    /\ Cardinality(FramesOf("tool_result")) <= CountSource(TurnEntries, "tool_result")

\* the order of the first three steps of a turn: the conversation_id frame
\* is the first frame, it is emitted after the user entry was persisted and
\* before the backend is called
TurnStartOrder ==
  /\ frames # <<>> =>
       /\ frames[1].event = "conversation_id"
       /\ pc \notin {"idle", "logged_user"}
       /\ reqMessages # <<>> => TurnEntries # <<>> /\ TurnEntries[1].source = "user"
  /\ BackendCalls # {} => frames # <<>>
  /\ pc \in {"idle", "logged_user"} => frames = <<>> /\ BackendCalls = {}
  /\ pc = "sent_id" => Len(frames) = 1 /\ BackendCalls = {}

\* C30 as stated: the order above, and every request persists exactly one
\* user entry.
C30_Original ==
  /\ TurnStartOrder
  /\ pc # "idle" => CountSource(TurnEntries, "user") = 1

\* C30: in every turn the user entry is persisted before the conversation_id
\* frame is emitted, the conversation_id frame is the first frame and is
\* emitted before the backend is called; a request whose messages array is
\* not empty persists exactly one user entry, the last message of the array,
\* and a request with an empty array persists none.
C30_UserEntryThenIdThenStream ==
  /\ TurnStartOrder
  /\ pc # "idle" =>
       IF reqMessages = <<>>
         THEN CountSource(TurnEntries, "user") = 0
         ELSE /\ CountSource(TurnEntries, "user") = 1
              /\ TurnEntries[1].content = reqMessages[Len(reqMessages)]

C30_Witness ==
  /\ pc = "sent_id"
  /\ reqMessages # <<>>
  /\ Kinds(frames) = <<"conversation_id">>
  /\ Len(TurnEntries) = 1
  /\ TurnEntries[1].source = "user"
  /\ calls = <<>>

\* the step emits a tool_result frame with success true
EmitsToolSuccess ==
  /\ Len(frames') = Len(frames) + 1
  /\ frames'[Len(frames')].event = "tool_result"
  /\ frames'[Len(frames')].data.success

\* C31: when a tool_result frame with success true is emitted, the PDF render
\* of the same code was requested before the step and its return is what the
\* step received, the row of the conversation already holds the code and the
\* pages of the frame, and the frame carries a pdfUrl exactly when the PDF
\* render succeeded with data (the pdfUrl being that data).
C31_PdfBeforeToolSuccess ==
  [][EmitsToolSuccess =>
       LET out == frames'[Len(frames')].data.output
           row == getConversation(conversations, ConversationId)
           ret == calls'[Len(calls')]
       IN  /\ calls # <<>>
           /\ calls[Len(calls)] = RenderCall(out.code, "pdf")
           /\ Len(calls') = Len(calls) + 1
           /\ ret.fn = "renderTypst.return"
           /\ ret.format = "pdf"
           /\ row.typst_code = out.code
           /\ row.typst_pages = Some(out.pages)
           /\ conversations' = conversations
           /\ ("pdfUrl" \in DOMAIN out) <=> (ret.result.success /\ Truthy(ret.result.data))
           /\ ("pdfUrl" \in DOMAIN out) =>
                out.pdfUrl = "data:application/pdf;base64," \o ret.result.data]_vars

\* a tool success was just reported with the pdfUrl the PDF render gave
C31_Witness ==
  /\ pc = "stream1"
  /\ ~cancelled
  /\ frames[Len(frames)].event = "tool_result"
  /\ frames[Len(frames)].data.success
  /\ "pdfUrl" \in DOMAIN frames[Len(frames)].data.output
  /\ calls[Len(calls)] = RenderReturn("pdf", [success |-> TRUE, pages |-> None,
                                               data |-> "pdf:A", error |-> Undefined])
  /\ getConversation(conversations, ConversationId).typst_code = "A"

\* the tool-result string of the backend call at c
ToolResultStringOf(c) == calls[c].messages[Len(calls[c].messages)].content[1].content

\* C32: the tool-result string given to the follow-up call agrees with the
\* outcome in the log and on the stream, that of the last tool serviced
\* before the call: it is "Error: " followed by the error exactly when the
\* tool_result entry and the tool_result frame have success false, and
\* "Document rendered successfully" exactly when they have success true.
C32_ToolResultStringAgrees ==
  \A c \in BackendCalls :
    Len(calls[c].messages) > Len(reqMessages) =>
      LET text == ToolResultStringOf(c)
          entry == messages[Last(EntriesOf("tool_result"))].content
          frame == frames[Last(FramesOf("tool_result"))].data
      IN  /\ EntriesOf("tool_result") # {}
          /\ entry.success <=> text = "Document rendered successfully"
          /\ ~entry.success <=> text = "Error: " \o Field(entry, "error")
          /\ ~cancelled =>
               /\ FramesOf("tool_result") # {}
               /\ frame.success = entry.success
               /\ Field(frame, "error") = Field(entry, "error")

\* a follow-up was told of a failed render
C32_Witness ==
  /\ pc = "stream2"
  /\ ~cancelled
  /\ \E c \in BackendCalls :
       /\ Len(calls[c].messages) > Len(reqMessages)
       /\ ToolResultStringOf(c) = "Error: unknown variable"
  /\ ~frames[Last(FramesOf("tool_result"))].data.success
  /\ ~messages[Last(EntriesOf("tool_result"))].content.success

\* getMessages(conversationId) on the tables: WHERE conversation_id = ?
StoreGetMessages(d, id) ==
  getMessages(SelectSeq(d.messages, LAMBDA m : m.conversation_id = id))

ToolsInsideTurns(ui) ==
  \A i \in 1..Len(ui) :
    ui[i].role = "tool" =>
      /\ i > 1
      /\ ui[i - 1].role \in {"user", "tool"}
      /\ i < Len(ui) => ui[i + 1].role \in {"tool", "assistant"}

\* the list of a client that loaded the turns before this one and sent the
\* message of this turn
LiveList ==
  sendMessage(loadConversation(getMessages(PriorEntries)),
              reqMessages[Len(reqMessages)].content, frames).list

MaxSends == 2

NL == [t |-> "nl", v |-> ""]

\* part_004 lines 78-89: the text of the i-th frame of a stream
EncodeFrame(i, f) ==
  <<[t |-> "event: ", v |-> ""], [t |-> "name", v |-> f.event], NL,
    [t |-> "data: ", v |-> ""], [t |-> "json", v |-> ToString(i)], NL, NL>>

\* the response body of the frames fs
Encode(fs) ==
  [k \in 1..(7 * Len(fs)) |-> EncodeFrame(((k - 1) \div 7) + 1, fs[((k - 1) \div 7) + 1])[((k - 1) % 7) + 1]]

\* buffer.split("\n")
RECURSIVE split(_)
split(buf) ==
  IF \A k \in 1..Len(buf) : buf[k] # NL THEN <<buf>>
  ELSE LET k == CHOOSE i \in 1..Len(buf) :
                  buf[i] = NL /\ \A j \in 1..(i - 1) : buf[j] # NL
       IN  <<SubSeq(buf, 1, k - 1)>> \o split(SubSeq(buf, k + 1, Len(buf)))

\* line.startsWith(prefix)
startsWith(line, prefix) == line # <<>> /\ line[1].t = prefix

\* lines.indexOf(line): the first position of a line equal to line
indexOf(lines, line) ==
  CHOOSE i \in 1..Len(lines) : lines[i] = line /\ \A j \in 1..(i - 1) : lines[j] # line

\* JSON.parse(dataLine.slice(6)) where the body is that of stream
ParseData(stream, dataLine) ==
  stream[CHOOSE i \in 1..Len(stream) : ToString(i) = dataLine[2].v].data

\* lines 168-178: what the loop does with the k-th of lines, the frames it
\* hands to the switch
HandleLine(stream, lines, k) ==
  IF startsWith(lines[k], "event: ")
    THEN LET event == IF Len(lines[k]) > 1 THEN lines[k][2].v ELSE ""
             at == indexOf(lines, lines[k]) + 1
         IN  IF at <= Len(lines) /\ startsWith(lines[at], "data: ")
               THEN <<[event |-> event, data |-> ParseData(stream, lines[at])]>>
               ELSE <<>>
    ELSE <<>>

RECURSIVE HandleLines(_, _, _)
HandleLines(stream, lines, k) ==
  IF k = 0 THEN <<>>
  ELSE HandleLines(stream, lines, k - 1) \o HandleLine(stream, lines, k)

\* lines 162-178: one read that returned chunk
ReadChunk(c, chunk) ==
  LET all == split(c.buffer \o chunk)
      lines == SubSeq(all, 1, Len(all) - 1)
  IN  [c EXCEPT !.read = @ + Len(chunk),
                !.buffer = all[Len(all)],
                !.handled = @ \o HandleLines(c.stream, lines, Len(lines))]

\* input.trim()
trim(text) == IF text = " " THEN "" ELSE text

Inputs == {"", " ", "hi"}

ConversationIdFrame == [event |-> "conversation_id", data |-> [conversationId |-> ConversationId]]
TextFrame(t) == [event |-> "text", data |-> [text |-> t]]

\* the text frames of a response: up to two frames of one character
TextRuns ==
  {<<>>} \cup {<<TextFrame(TextOf(i))>> : i \in 1..2}
         \cup {<<TextFrame(TextOf(i)), TextFrame(TextOf(j))>> : i \in 1..2, j \in 1..2}

RECURSIVE TextOfFrames(_)
TextOfFrames(fs) ==
  IF fs = <<>> THEN ""
  ELSE (IF fs[1].event = "text" THEN fs[1].data.text ELSE "") \o TextOfFrames(Tail(fs))

\* the streams a response carries: the conversation id, text, and then done,
\* an error, or nothing when the stream was cut; and a turn with a tool
ResponseStreams ==
  {<<ConversationIdFrame>> \o ts \o <<[event |-> "done", data |-> [message |-> TextOfFrames(ts)]]>> :
     ts \in TextRuns}
  \cup {<<ConversationIdFrame>> \o ts \o <<[event |-> "error", data |-> [error |-> "boom"]]>> :
          ts \in TextRuns}
  \cup {<<ConversationIdFrame>> \o ts : ts \in TextRuns}
  \cup {<<ConversationIdFrame,
          [event |-> "tool_start", data |-> [tool |-> RenderTool, id |-> "t1"]],
          [event |-> "tool_input", data |-> [tool |-> RenderTool, input |-> "{}"]],
          [event |-> "tool_executing", data |-> [tool |-> RenderTool]],
          [event |-> "tool_result",
           data |-> [tool |-> RenderTool, success |-> FALSE, error |-> "boom"]],
          TextFrame("a"),
          [event |-> "done", data |-> [message |-> "a"]]>>}

\* the response body of each stream
Bodies == [fs \in ResponseStreams |-> Encode(fs)]

\* the length of the longest body
LongestBody == 7 * 7

clientUntouched ==
  <<pc, reqMessages, conversations, messages, frames, controllerClosed, cancelled,
    currentText, typstOutput, toolUseId, toolName, toolInput, input, block, toolBlocks,
    frags, calls, failure, abortAt, turnBase, pc2, uiMessages, loadPos, loadData,
    loadResults, storeVars, handler, renderer>>

\* a variant without the guard of line 111
SendMessage_NoGuard(text) ==
  /\ client.sends < MaxSends
  /\ client' = [ClientIdle EXCEPT !.pc = "fetching", !.isLoading = TRUE,
                                  !.inFlight = client.inFlight + 1,
                                  !.sends = client.sends + 1, !.text = text]
  /\ UNCHANGED clientUntouched

\* lines 110-156: the guard, setIsLoading(true) and the fetch
SendMessage(text) ==
  /\ client.sends < MaxSends
  /\ IF trim(text) = "" \/ client.isLoading
       THEN UNCHANGED client
       ELSE client' = [ClientIdle EXCEPT !.pc = "fetching", !.isLoading = TRUE,
                                         !.inFlight = client.inFlight + 1,
                                         !.sends = client.sends + 1, !.text = text]
  /\ UNCHANGED clientUntouched

\* the finally of lines 314-317 after the outcome how
Finally(c, how) ==
  [c EXCEPT !.pc = "idle", !.isLoading = FALSE, !.inFlight = @ - 1, !.caught = how]

\* lines 147-159: fetch returns a response with a body
FetchReturn(fs) ==
  /\ client.pc = "fetching"
  /\ client' = [client EXCEPT !.pc = "reading", !.stream = fs]
  /\ UNCHANGED clientUntouched

\* lines 155 and 299-317: the response is not ok or fetch rejects, the
\* catch writes its apology
FetchFail ==
  /\ client.pc = "fetching"
  /\ client' = Finally(client, "error")
  /\ UNCHANGED clientUntouched

\* lines 162-178: reader.read() returns the next n units of the body
Read(n) ==
  /\ client.pc = "reading"
  /\ n \in 1..(7 * Len(client.stream) - client.read)
  /\ client' = ReadChunk(client, SubSeq(Bodies[client.stream], client.read + 1,
                                        client.read + n))
  /\ UNCHANGED clientUntouched

\* lines 163-164 and 314-317: the body has ended, read returns done
ReadDone ==
  /\ client.pc = "reading"
  /\ client.read = 7 * Len(client.stream)
  /\ client' = Finally(client, "none")
  /\ UNCHANGED clientUntouched

\* lines 299-317: reader.read() rejects, the connection failed
ReadFail ==
  /\ client.pc = "reading"
  /\ client' = Finally(client, "error")
  /\ UNCHANGED clientUntouched

\* lines 299-317: the request was aborted, fetch or read rejects with an
\* AbortError and the catch leaves the messages alone
Aborted ==
  /\ client.pc \in {"fetching", "reading"}
  /\ client' = Finally(client, "abort")
  /\ UNCHANGED clientUntouched

\* the steps that end a pending await of sendMessage
ClientProgress ==
  \/ FetchFail
  \/ ReadDone
  \/ ReadFail
  \/ Aborted
  \/ \E fs \in ResponseStreams : FetchReturn(fs)
  \/ \E n \in 1..LongestBody : Read(n)

ClientNext ==
  \/ \E text \in Inputs : SendMessage(text)
  \/ ClientProgress

SpecClient == Init /\ [][ClientNext]_vars

\* a pending fetch or read settles
SpecClientFair == Init /\ [][ClientNext]_vars /\ WF_vars(ClientProgress)

\* the messages of the client after the frames it has handled
ClientList == sendMessage(<<>>, client.text, client.handled).list

ClientAssistant == ClientList[CHOOSE i \in 1..Len(ClientList) : ClientList[i].id = "assistant"]

EventsOf(fs) == [i \in 1..Len(fs) |-> fs[i].event]

\* C35: when the whole body of a response has been read, whatever the places
\* at which the reads cut it, the reader has handed every frame of the
\* stream to the switch exactly once and in emission order
C35_SplitFrameHandledOnce ==
  (client.pc = "reading" /\ client.read = 7 * Len(client.stream))
    => EventsOf(client.handled) = EventsOf(client.stream)

\* C36: when done has been handled and no frame was lost, the content of the
\* streaming assistant message is the text of the text frames of the stream
\* in emission order
C36_EachFrameItsOwnData ==
  (/\ client.pc = "reading"
   /\ Len(client.handled) = Len(client.stream)
   /\ client.handled # <<>>
   /\ client.handled[Len(client.handled)].event = "done")
    => ClientAssistant.content = TextOfFrames(client.stream)

\* C37: sendMessage starts a turn only when nothing is loading and the input
\* is not blank, so at most one turn is in flight and it is the one isLoading
\* tells of; and whenever isLoading is true it becomes false again, however
\* the fetch or the stream ends
C37_OneTurnAndLoadingEnds ==
  /\ [](/\ client.inFlight <= 1
        /\ client.isLoading <=> client.inFlight = 1
        /\ client.isLoading => trim(client.text) # "")
  /\ [][client.isLoading => client'.sends = client.sends]_vars
  /\ (client.isLoading ~> ~client.isLoading)

\* a second turn was started after the first had ended, and it ended with a
\* failure of the connection: isLoading is false again
C37_Witness ==
  /\ client.sends = 2
  /\ client.caught = "error"
  /\ ~client.isLoading
  /\ client.inFlight = 0

(***************************************************************************)
(* renderTypst step by step, with the files of the temp directory.  A file *)
(* is named by the id of the call, its extension and, for a page, the page *)
(* number: id.typ is [id, "typ", 0], id.pdf is [id, "pdf", 0] and id-2.png *)
(* is [id, "png", 2].  crypto.randomUUID() is the number of the call.      *)
(* Every await after the validation can throw, which the catch turns into  *)
(* a failure.                                                              *)
(***************************************************************************)
MaxRenders == 2

Formats == {"pdf", "png", "svg"}

RenderCodes == {"", "A", "B"}

ThrownError == "ENOENT"

InputFile(id) == [id |-> id, ext |-> "typ", n |-> 0]

\* what the compiler writes for outputPath: the pages id-{n}.ext, or id.pdf
OutputFiles(id, code, format) ==
  IF format = "pdf" THEN {[id |-> id, ext |-> "pdf", n |-> 0]}
  ELSE {[id |-> id, ext |-> format, n |-> k] : k \in 1..Len(PagesOf(code))}

\* lines 70-79: the names of readdir that start with id- and end with .ext,
\* by page number
pageFiles(files, id, ext) ==
  LET mine == {f \in files : f.id = id /\ f.ext = ext /\ f.n > 0}
  IN  [k \in 1..Cardinality(mine) |->
         CHOOSE f \in mine : Cardinality({g \in mine : g.n < f.n}) = k - 1]

rendererUntouched ==
  <<pc, reqMessages, conversations, messages, frames, controllerClosed, cancelled,
    currentText, typstOutput, toolUseId, toolName, toolInput, input, block, toolBlocks,
    frags, calls, failure, abortAt, turnBase, pc2, uiMessages, loadPos, loadData,
    loadResults, storeVars, handler, client>>

\* the return of a call
Return(rd, r) == [rd EXCEPT !.at = "returned", !.result = <<r>>]

\* lines 24-45: a call; a blank code is refused (40-42), otherwise the
\* source is written to id.typ
RenderStart(code, format) ==
  /\ renderer.at \in {"idle", "returned"}
  /\ renderer.calls < MaxRenders
  /\ LET rd == [renderer EXCEPT !.calls = @ + 1, !.id = renderer.calls + 1,
                                !.code = code, !.format = format, !.pages = <<>>,
                                !.data = "", !.result = <<>>]
     IN  renderer' =
           IF Blank(code) THEN Return(rd, RenderFailure(NoCodeError))
           ELSE [rd EXCEPT !.at = "spawn", !.files = @ \cup {InputFile(rd.id)}]
  /\ UNCHANGED rendererUntouched

\* lines 48-53: the compiler exits with 0 and has written its output
CompileSucceeds ==
  /\ renderer.at = "spawn"
  /\ renderer' = [renderer EXCEPT
                    !.at = "read",
                    !.files = @ \cup OutputFiles(renderer.id, renderer.code,
                                                 renderer.format)]
  /\ UNCHANGED rendererUntouched

\* lines 55-60: the compiler exits with another code
CompileFails(e) ==
  /\ renderer.at = "spawn"
  /\ renderer' = Return(renderer, RenderFailure(e))
  /\ UNCHANGED rendererUntouched

\* lines 81-94: the next page file is read and unlinked
ReadPage ==
  /\ renderer.at = "read"
  /\ renderer.format # "pdf"
  /\ LET left == pageFiles(renderer.files, renderer.id, renderer.format)
     IN  /\ left # <<>>
         /\ renderer' = [renderer EXCEPT
                           !.pages = Append(@, PagesOf(renderer.code)[left[1].n]),
                           !.files = @ \ {left[1]}]
  /\ UNCHANGED rendererUntouched

\* lines 96-102: after the last page id.typ is unlinked and the pages are
\* returned
ReturnPages ==
  /\ renderer.at = "read"
  /\ renderer.format # "pdf"
  /\ pageFiles(renderer.files, renderer.id, renderer.format) = <<>>
  /\ renderer' = Return([renderer EXCEPT !.files = @ \ {InputFile(renderer.id)}],
                        [success |-> TRUE, pages |-> Some(renderer.pages),
                         data |-> Undefined, error |-> Undefined])
  /\ UNCHANGED rendererUntouched

\* lines 105-107: id.pdf is read
ReadOutput ==
  /\ renderer.at = "read"
  /\ renderer.format = "pdf"
  /\ renderer' = [renderer EXCEPT !.at = "unlinkInput", !.data = "pdf:" \o renderer.code]
  /\ UNCHANGED rendererUntouched

\* line 109: unlink(inputPath)
UnlinkInput ==
  /\ renderer.at = "unlinkInput"
  /\ renderer' = [renderer EXCEPT !.at = "unlinkOutput",
                                  !.files = @ \ {InputFile(renderer.id)}]
  /\ UNCHANGED rendererUntouched

\* lines 110-116: unlink(actualOutputPath) and the return of the data
UnlinkOutput ==
  /\ renderer.at = "unlinkOutput"
  /\ renderer' = Return([renderer EXCEPT !.files = @ \ OutputFiles(renderer.id,
                                                                   renderer.code, "pdf")],
                        [success |-> TRUE, pages |-> None, data |-> renderer.data,
                         error |-> Undefined])
  /\ UNCHANGED rendererUntouched

\* lines 118-123: an await between the write and the return throws (the
\* compiler cannot be started, a file cannot be read or unlinked) and the
\* catch returns the failure
Throws ==
  /\ renderer.at \in {"spawn", "read", "unlinkInput", "unlinkOutput"}
  /\ renderer' = Return(renderer, RenderFailure(ThrownError))
  /\ UNCHANGED rendererUntouched

RenderNext ==
  \/ \E code \in RenderCodes, format \in Formats : RenderStart(code, format)
  \/ CompileSucceeds
  \/ \E e \in RenderErrors : CompileFails(e)
  \/ ReadPage
  \/ ReturnPages
  \/ ReadOutput
  \/ UnlinkInput
  \/ UnlinkOutput
  \/ Throws

SpecRender == Init /\ [][RenderNext]_vars

\* the files of the temp directory that carry the id of the last call
OwnFiles == {f \in renderer.files : f.id = renderer.id}

\* C38: when a call of renderTypst has returned, the temp directory holds no
\* file named with the id of that call, neither id.typ nor an output file
C38_NoTempFileRemains ==
  renderer.at = "returned" => OwnFiles = {}

====
